---- MODULE Spec2Model ----
(***************************************************************************)
(* State-machine model of the edge inference node (backend/app/engine.py,  *)
(* backend/app/exam.py, backend/app/tracker.py, backend/main.py).          *)
(*                                                                         *)
(* Threads: VideoReader (video_reader), InferenceStage (main_loop),        *)
(* PostProcessor (post_process_loop), /stream generators                   *)
(* (frame_generator), HTTP control handlers, ExamManager operations and    *)
(* its timers.  Code that runs under a lock is one action; code that runs  *)
(* without a lock is split at its accesses to shared state.                *)
(***************************************************************************)
EXTENDS Integers, Sequences, FiniteSets, TLC

(***************************************************************************)
(* Bounds of the model                                                     *)
(***************************************************************************)
\* config key QUEUE_SIZE: capacity of raw_q and result_q
QUEUE_SIZE == 2
\* number of frames the video source delivers in a run
MaxFrames == 3
\* number of concurrent /stream clients
NumClients == 2
\* number of /cmd requests served in a run
MaxCmds == 3

(***************************************************************************)
(* Program constants                                                       *)
(***************************************************************************)
\* latest_jpeg = None (engine.py:21); a JPEG is identified by its frame number >= 1
NoJpeg == 0
\* frame_generator: last_sent_id = -1 (main.py:245)
InitialLastSentId == -1
\* video_reader: max_consecutive_failures = 10 (engine.py:93)
max_consecutive_failures == 10
\* video_reader: for attempt in range(3) (engine.py:107)
ReconnectAttempts == 3

Urls == {"urlA", "urlB"}
NoPath == "None"
NoError == "None"
ClientIds == 1..NumClients

(***************************************************************************)
(* State                                                                   *)
(***************************************************************************)
VARIABLES
    \* InferenceEngine fields (engine.py:17-52)
    latest_jpeg, frame_id, is_inferring, last_error,
    inferring_event, video_event, exit_event,
    raw_q, result_q, current_video_path,
    tracker, tracking_event, frame_count, final_centers,
    \* ExamManager fields (exam.py:13-38)
    exam_lock, cancel_event, exam_running, session, track_timer, timer_thread,
    anomaly_counts, anomaly_snapshots, snapshot_cooldown, frame_counter,
    \* video_reader thread: position and locals
    pcR, cap, v_path, consecutive_failures, attempt, rframe, captured,
    \* main_loop thread: position and locals
    pcI, det_model, cls_model, iframe, iboxes,
    \* post_process_loop thread: position and locals
    pcP, pitem, pexam, pcenters, pcurrent_frame, pidx, panomaly_map,
    \* frame_generator instances: position, locals, frames yielded so far
    clients,
    \* callers of start_exam / stop_exam / set_video_source, the Timer threads
    \* running _start_tracking, the threads running _auto_stop_timer, the number of
    \* /cmd requests served
    starter, stoppers, trackTimers, autoStops, exams_started, setter, cmds,
    \* history: the id of the frame each queue consumer received last and whether
    \* the reader has drained frames, the outcome of the last ExamManager API call,
    \* the snapshots written, the detection lists passed to the update method of
    \* the tracker object engine.tracker holds, since that object was created
    polled, last_call, snapshots, fed

ctlVars == <<setter, cmds>>
busVars == <<latest_jpeg, frame_id>>
statusVars == <<is_inferring, last_error>>
gateVars == <<inferring_event, video_event, exit_event>>
queueVars == <<raw_q, result_q>>
calibVars == <<tracker, tracking_event, frame_count, final_centers, fed>>
engineVars == <<busVars, statusVars, gateVars, queueVars, current_video_path, calibVars>>
countVars == <<anomaly_counts, anomaly_snapshots, snapshot_cooldown, frame_counter>>
examVars == <<exam_lock, cancel_event, exam_running, session, track_timer, timer_thread,
              countVars>>
readerVars == <<pcR, cap, v_path, consecutive_failures, attempt, rframe, captured>>
stageVars == <<pcI, det_model, cls_model, iframe, iboxes>>
postVars == <<pcP, pitem, pexam, pcenters, pcurrent_frame, pidx, panomaly_map>>
examThreads == <<starter, stoppers, trackTimers, autoStops, exams_started, ctlVars>>
history == <<polled, last_call, snapshots>>
vars == <<engineVars, examVars, readerVars, stageVars, postVars, clients, examThreads,
          history>>

\* what the steps of one thread leave alone in the other threads
othersR == <<examVars, stageVars, postVars, clients, examThreads, history>>
othersI == <<examVars, readerVars, postVars, clients, examThreads, last_call, snapshots>>
othersC == <<examVars, readerVars, stageVars, postVars, examThreads, history>>
othersP == <<readerVars, stageVars, clients, examThreads, last_call>>

NoFrame == [id |-> 0, src |-> NoPath]

(***************************************************************************)
(* VideoReader: InferenceEngine.video_reader (engine.py:63-149)            *)
(***************************************************************************)
\* lines 65-77: loop head; gate low releases the capture; no source: wait
ReaderTop ==
    /\ pcR = "top"
    /\ IF exit_event
         THEN pcR' = "done" /\ UNCHANGED <<cap, v_path>>
         ELSE IF ~video_event
           THEN /\ cap' = (IF cap = "open" THEN "None" ELSE cap)
                /\ UNCHANGED <<pcR, v_path>>
           ELSE IF current_video_path = NoPath
             THEN UNCHANGED <<pcR, cap, v_path>>
             ELSE /\ v_path' = current_video_path
                  /\ pcR' = "opening"
                  /\ UNCHANGED cap
    /\ UNCHANGED <<engineVars, consecutive_failures, attempt, rframe, captured,
                   othersR>>

\* a variant of ReaderOpen that leaves the video gate up when the open fails
ReaderOpenKeepsGate ==
    /\ pcR = "opening"
    /\ \E opened \in BOOLEAN :
         IF opened
           THEN /\ cap' = "open"
                /\ consecutive_failures' = 0
                /\ pcR' = "streaming"
                /\ UNCHANGED <<last_error, video_event>>
           ELSE /\ cap' = "closed"
                /\ last_error' = "source"
                /\ pcR' = "top"
                /\ UNCHANGED <<consecutive_failures, video_event>>
    /\ UNCHANGED <<busVars, is_inferring, inferring_event, exit_event, queueVars,
                   current_video_path, calibVars, v_path, attempt, rframe, captured,
                   othersR>>

\* lines 80-92: cv2.VideoCapture(v_path); on failure record last_error and lower the gate
ReaderOpen ==
    /\ pcR = "opening"
    /\ \E opened \in BOOLEAN :
         IF opened
           THEN /\ cap' = "open"
                /\ consecutive_failures' = 0
                /\ pcR' = "streaming"
                /\ UNCHANGED <<last_error, video_event>>
           ELSE /\ cap' = "closed"
                /\ last_error' = "source"
                /\ video_event' = FALSE
                /\ pcR' = "top"
                /\ UNCHANGED consecutive_failures
    /\ UNCHANGED <<busVars, is_inferring, inferring_event, exit_event, queueVars,
                   current_video_path, calibVars, v_path, attempt, rframe, captured,
                   othersR>>

\* lines 94-100, 121-122: loop condition, then a successful cap.read(), of a
\* source that delivers `limit` frames in a run
ReaderRead(limit) ==
    /\ pcR = "streaming"
    /\ cap = "open" /\ video_event /\ ~exit_event
    /\ captured < limit
    /\ captured' = captured + 1
    /\ rframe' = [id |-> captured + 1, src |-> v_path]
    /\ consecutive_failures' = 0
    /\ pcR' = "offer"
    /\ UNCHANGED <<engineVars, cap, v_path, attempt, othersR>>

ReaderReadOk == ReaderRead(MaxFrames)

\* lines 94-104, 120: loop condition, then a failed cap.read()
ReaderReadFail ==
    /\ pcR = "streaming"
    /\ cap = "open" /\ video_event /\ ~exit_event
    /\ consecutive_failures' = consecutive_failures + 1
    /\ IF consecutive_failures + 1 > max_consecutive_failures
         THEN pcR' = "reconnect" /\ attempt' = 0
         ELSE UNCHANGED <<pcR, attempt>>
    /\ UNCHANGED <<engineVars, cap, v_path, rframe, captured, othersR>>

\* lines 94-98: the loop condition fails
ReaderLeave ==
    /\ pcR = "streaming"
    /\ ~(cap = "open" /\ video_event /\ ~exit_event)
    /\ pcR' = "release"
    /\ UNCHANGED <<engineVars, cap, v_path, consecutive_failures, attempt, rframe,
                   captured, othersR>>

\* lines 107-119: one reconnect attempt
ReaderReconnect ==
    /\ pcR = "reconnect"
    /\ \E opened \in BOOLEAN :
         IF opened
           THEN /\ cap' = "open"
                /\ last_error' = NoError
                /\ consecutive_failures' = 0
                /\ pcR' = "streaming"
                /\ UNCHANGED attempt
           ELSE /\ cap' = "closed"
                /\ attempt' = attempt + 1
                /\ pcR' = (IF attempt + 1 >= ReconnectAttempts THEN "release" ELSE "reconnect")
                /\ UNCHANGED <<last_error, consecutive_failures>>
    /\ UNCHANGED <<busVars, is_inferring, gateVars, queueVars, current_video_path,
                   calibVars, v_path, rframe, captured, othersR>>

\* line 124: raw_q.full()
ReaderOfferCheck ==
    /\ pcR = "offer"
    /\ pcR' = (IF Len(raw_q) >= QUEUE_SIZE THEN "offer_get" ELSE "offer_put")
    /\ UNCHANGED <<engineVars, cap, v_path, consecutive_failures, attempt, rframe,
                   captured, othersR>>

\* a variant of ReaderOfferGet that removes nothing from a full queue
ReaderOfferGetNothing ==
    /\ pcR = "offer_get"
    /\ pcR' = "offer_put"
    /\ UNCHANGED <<engineVars, cap, v_path, consecutive_failures, attempt, rframe,
                   captured, othersR>>

\* lines 125-128: raw_q.get_nowait(), queue.Empty ignored
ReaderOfferGet ==
    /\ pcR = "offer_get"
    /\ raw_q' = (IF raw_q = <<>> THEN raw_q ELSE Tail(raw_q))
    /\ pcR' = "offer_put"
    /\ UNCHANGED <<busVars, statusVars, gateVars, result_q, current_video_path, calibVars,
                   cap, v_path, consecutive_failures, attempt, rframe, captured,
                   othersR>>

\* lines 130-139: raw_q.put_nowait(frame), queue.Full ignored
ReaderOfferPut ==
    /\ pcR = "offer_put"
    /\ raw_q' = (IF Len(raw_q) >= QUEUE_SIZE THEN raw_q ELSE Append(raw_q, rframe))
    /\ rframe' = NoFrame
    /\ pcR' = "streaming"
    /\ UNCHANGED <<busVars, statusVars, gateVars, result_q, current_video_path, calibVars,
                   cap, v_path, consecutive_failures, attempt, captured,
                   othersR>>

\* lines 140-142: release the capture
ReaderRelease ==
    /\ pcR = "release"
    /\ cap' = "None"
    /\ pcR' = "drain_raw"
    /\ UNCHANGED <<engineVars, v_path, consecutive_failures, attempt, rframe, captured,
                   othersR>>

\* lines 144-149, q = raw_q: while not q.empty(): q.get_nowait()
ReaderDrainRaw ==
    /\ pcR = "drain_raw"
    /\ IF raw_q = <<>>
         THEN pcR' = "drain_result" /\ UNCHANGED <<raw_q, polled>>
         ELSE /\ raw_q' = Tail(raw_q)
              /\ polled' = [polled EXCEPT !.drained = TRUE]
              /\ UNCHANGED pcR
    /\ UNCHANGED <<busVars, statusVars, gateVars, result_q, current_video_path, calibVars,
                   cap, v_path, consecutive_failures, attempt, rframe, captured,
                   examVars, stageVars, postVars, clients, examThreads, last_call, snapshots>>

\* lines 144-149, q = result_q
ReaderDrainResult ==
    /\ pcR = "drain_result"
    /\ IF result_q = <<>>
         THEN pcR' = "top" /\ UNCHANGED result_q
         ELSE result_q' = Tail(result_q) /\ UNCHANGED pcR
    /\ UNCHANGED <<busVars, statusVars, gateVars, raw_q, current_video_path, calibVars,
                   cap, v_path, consecutive_failures, attempt, rframe, captured,
                   othersR>>

(***************************************************************************)
(* Tracker (tracker.py)                                                    *)
(***************************************************************************)
\* a box is <<x1, y1, x2, y2>>
Max2(a, b) == IF a >= b THEN a ELSE b
Min2(a, b) == IF a <= b THEN a ELSE b
\* int(): truncation toward zero of a / b, b > 0
TruncDiv(a, b) == IF a >= 0 THEN a \div b ELSE -((-a) \div b)

\* vectorized_iou, one entry, as the exact fraction <<inter_area, union_area>>;
\* iou[union_area == 0] = 0 is the fraction <<0, 1>>
IouFrac(b1, b2) ==
    LET inter_w == Max2(0, Min2(b1[3], b2[3]) - Max2(b1[1], b2[1]))
        inter_h == Max2(0, Min2(b1[4], b2[4]) - Max2(b1[2], b2[2]))
        inter_area == inter_w * inter_h
        area1 == (b1[3] - b1[1]) * (b1[4] - b1[2])
        area2 == (b2[3] - b2[1]) * (b2[4] - b2[2])
        union_area == area1 + area2 - inter_area
    IN  IF union_area = 0 THEN <<0, 1>>
        ELSE IF union_area < 0 THEN <<-inter_area, -union_area>>
        ELSE <<inter_area, union_area>>

\* Tracker.__init__: max_age=10, iou_threshold=0.3 (as the fraction 3/10)
max_age == 10
IouThresholdNum == 3
IouThresholdDen == 10

\* cost_matrix[r, c] < 1 - iou_threshold, i.e. iou > iou_threshold
IouAccepted(f) == f[1] * IouThresholdDen > IouThresholdNum * f[2]

FreshTracker == [tracks |-> <<>>, next_id |-> 0]

\* Track(det, id): boxes = [box], last_update = 0
NewTrack(box, id) == [id |-> id, boxes |-> <<box>>, last_update |-> 0]

\* the complete assignments of an n x m cost matrix: min(n, m) pairs <<row, col>>,
\* no row and no column used twice
Assignments(n, m) ==
    {A \in SUBSET ((1..n) \X (1..m)) :
        /\ Cardinality(A) = Min2(n, m)
        /\ \A p, q \in A : p # q => (p[1] # q[1] /\ p[2] # q[2])}

RECURSIVE IouSum(_, _, _)
\* the sum of the IoU fractions of the pairs of A, as a fraction
IouSum(A, tracks, dets) ==
    IF A = {} THEN <<0, 1>>
    ELSE LET p == CHOOSE x \in A : TRUE
             f == IouFrac(tracks[p[1]].boxes[Len(tracks[p[1]].boxes)], dets[p[2]])
             r == IouSum(A \ {p}, tracks, dets)
         IN  <<f[1] * r[2] + r[1] * f[2], f[2] * r[2]>>

RECURSIVE AssignKey(_, _, _)
\* the columns assigned to rows r..n, 0 for an unassigned row
AssignKey(A, r, n) ==
    IF r > n THEN <<>>
    ELSE LET cs == {p[2] : p \in {q \in A : q[1] = r}}
         IN  <<(IF cs = {} THEN 0 ELSE CHOOSE c \in cs : TRUE)>> \o AssignKey(A, r + 1, n)

RECURSIVE LexLeq(_, _)
LexLeq(a, b) ==
    IF a = <<>> THEN TRUE
    ELSE IF a[1] # b[1] THEN a[1] < b[1]
    ELSE LexLeq(Tail(a), Tail(b))

\* linear_sum_assignment(1 - iou): an assignment of least total cost, the first
\* in row order among those of equal cost
LinearSumAssignment(tracks, dets) ==
    LET n == Len(tracks)
        m == Len(dets)
        all == Assignments(n, m)
        best == {A \in all : \A B \in all :
                    LET a == IouSum(A, tracks, dets)
                        b == IouSum(B, tracks, dets)
                    IN  a[1] * b[2] >= b[1] * a[2]}
    IN  CHOOSE A \in best : \A B \in best : LexLeq(AssignKey(A, 1, n), AssignKey(B, 1, n))

RECURSIVE SpawnTracks(_, _, _, _)
\* append Track(dets[j], next_id) for each j from `j` on that is not in `skip`
SpawnTracks(T, dets, j, skip) ==
    IF j > Len(dets) THEN T
    ELSE IF j \in skip THEN SpawnTracks(T, dets, j + 1, skip)
    ELSE SpawnTracks([tracks |-> Append(T.tracks, NewTrack(dets[j], T.next_id)),
                      next_id |-> T.next_id + 1], dets, j + 1, skip)

RECURSIVE KeepYoung(_)
\* self.tracks = [t for t in self.tracks if t.last_update <= self.max_age]
KeepYoung(ts) ==
    IF ts = <<>> THEN <<>>
    ELSE IF Head(ts).last_update <= max_age THEN <<Head(ts)>> \o KeepYoung(Tail(ts))
    ELSE KeepYoung(Tail(ts))

RECURSIVE ApplyMatches(_, _, _, _)
\* self.tracks[r].update(detections[c]) for the accepted pairs, rows r..n
ApplyMatches(ts, dets, matched, r) ==
    IF r > Len(ts) THEN <<>>
    ELSE LET cs == {p[2] : p \in {q \in matched : q[1] = r}}
             t == IF cs = {} THEN ts[r]
                  ELSE [ts[r] EXCEPT !.boxes = Append(@, dets[CHOOSE c \in cs : TRUE]),
                                     !.last_update = 0]
         IN  <<t>> \o ApplyMatches(ts, dets, matched, r + 1)

RECURSIVE AgeUnmatched(_, _, _)
\* for i in range(len(self.tracks)): if i not in matched_tracks: last_update += 1
AgeUnmatched(ts, matched_tracks, i) ==
    IF i > Len(ts) THEN <<>>
    ELSE <<(IF i \in matched_tracks THEN ts[i]
            ELSE [ts[i] EXCEPT !.last_update = @ + 1])>>
         \o AgeUnmatched(ts, matched_tracks, i + 1)

\* Tracker.update(detections)
TrackerUpdate(T, dets) ==
    IF T.tracks = <<>> THEN SpawnTracks(T, dets, 1, {})
    ELSE
      LET A == LinearSumAssignment(T.tracks, dets)
          matched == {p \in A : IouAccepted(
                        IouFrac(T.tracks[p[1]].boxes[Len(T.tracks[p[1]].boxes)], dets[p[2]]))}
          matched_tracks == {p[1] : p \in matched}
          matched_dets == {p[2] : p \in matched}
          updated == ApplyMatches(T.tracks, dets, matched, 1)
          spawned == SpawnTracks([tracks |-> updated, next_id |-> T.next_id], dets, 1,
                                 matched_dets)
          aged == AgeUnmatched(spawned.tracks, matched_tracks, 1)
      IN  [tracks |-> KeepYoung(aged), next_id |-> spawned.next_id]

RECURSIVE SumCenters(_)
\* the sums of (x1 + x2) and of (y1 + y2) over a history of boxes
SumCenters(boxes) ==
    IF boxes = <<>> THEN <<0, 0>>
    ELSE LET r == SumCenters(Tail(boxes))
         IN  <<r[1] + Head(boxes)[1] + Head(boxes)[3], r[2] + Head(boxes)[2] + Head(boxes)[4]>>

\* Track.get_avg_center: np.mean of the box centers, astype(int)
AvgCenter(t) ==
    LET sm == SumCenters(t.boxes)
    IN  <<TruncDiv(sm[1], 2 * Len(t.boxes)), TruncDiv(sm[2], 2 * Len(t.boxes))>>

RECURSIVE CenterItems(_)
CenterItems(ts) ==
    IF ts = <<>> THEN <<>>
    ELSE <<[id |-> Head(ts).id, center |-> AvgCenter(Head(ts))]>> \o CenterItems(Tail(ts))

\* Tracker.get_final_centers: {t.id: t.get_avg_center()} in track order
GetFinalCenters(T) == CenterItems(T.tracks)

\* engine.final_centers: None, or the dict as its items in insertion order
NoCenters == [none |-> TRUE, items |-> <<>>]
Centers(items) == [none |-> FALSE, items |-> items]
\* Python truth value of final_centers: neither None nor an empty dict
Truthy(fc) == ~fc.none /\ fc.items # <<>>

(***************************************************************************)
(* InferenceStage: InferenceEngine.main_loop (engine.py:151-239)           *)
(***************************************************************************)
\* config key TRACK_MAX_FRAMES (engine.py:48)
TRACK_MAX_FRAMES == 1

\* the outputs post_process_det can return for a frame (models.py:17-61):
\* [] when nothing passes the filters, else the kept boxes
BoxA == <<1, 1, 3, 3>>
BoxB == <<5, 5, 7, 7>>
DetLists == {<<>>, <<BoxA>>, <<BoxA, BoxB>>}
\* the class ids the classification model can return (argmax of its scores)
Classes == {0, 4}

NoItem == [frame |-> NoFrame, boxes |-> <<>>, cls_ids |-> <<>>]

\* a variant of StageTop that does not test exit_event
StageTopIgnoresExit ==
    /\ pcI = "top"
    /\ IF ~inferring_event
         THEN is_inferring' = FALSE /\ UNCHANGED pcI
         ELSE pcI' = "loading" /\ UNCHANGED is_inferring
    /\ UNCHANGED <<busVars, last_error, gateVars, queueVars, current_video_path, calibVars,
                   det_model, cls_model, iframe, iboxes, polled, othersI>>

\* lines 152-157: loop head, gate low
StageTop ==
    /\ pcI = "top"
    /\ IF exit_event
         THEN pcI' = "done" /\ UNCHANGED is_inferring
         ELSE IF ~inferring_event
           THEN is_inferring' = FALSE /\ UNCHANGED pcI
           ELSE pcI' = "loading" /\ UNCHANGED is_inferring
    /\ UNCHANGED <<busVars, last_error, gateVars, queueVars, current_video_path, calibVars,
                   det_model, cls_model, iframe, iboxes, polled, othersI>>

\* lines 158-176: load both models; on an exception record last_error, lower the
\* gate and go back to the loop head.  det_model is bound before cls_model is
\* loaded, and a name bound before the exception stays bound.
StageLoad ==
    /\ pcI = "loading"
    /\ \E outcome \in {"ok", "det_fails", "cls_fails"} :
         IF outcome = "ok"
           THEN /\ det_model' = TRUE
                /\ cls_model' = TRUE
                /\ is_inferring' = TRUE
                /\ last_error' = NoError
                /\ pcI' = "running"
                /\ UNCHANGED inferring_event
           ELSE /\ det_model' = (IF outcome = "cls_fails" THEN TRUE ELSE det_model)
                /\ last_error' = "model"
                /\ inferring_event' = FALSE
                /\ pcI' = "top"
                /\ UNCHANGED <<cls_model, is_inferring>>
    /\ UNCHANGED <<busVars, video_event, exit_event, queueVars, current_video_path,
                   calibVars, iframe, iboxes, polled, othersI>>

\* lines 178-182: loop condition holds and raw_q.get(timeout=0.5) returns a frame
StagePoll ==
    /\ pcI = "running"
    /\ inferring_event /\ ~exit_event
    /\ raw_q # <<>>
    /\ iframe' = Head(raw_q)
    /\ raw_q' = Tail(raw_q)
    /\ polled' = [polled EXCEPT !.raw = Head(raw_q).id]
    /\ pcI' = "detect"
    /\ UNCHANGED <<busVars, statusVars, gateVars, result_q, current_video_path, calibVars,
                   det_model, cls_model, iboxes, othersI>>

\* line 178: the loop condition fails
StageLeave ==
    /\ pcI = "running"
    /\ ~(inferring_event /\ ~exit_event)
    /\ pcI' = "unloading"
    /\ UNCHANGED <<engineVars, det_model, cls_model, iframe, iboxes, polled, othersI>>

\* lines 184-192: detection and post_process_det
StageDetect(boxes) ==
    /\ pcI = "detect"
    /\ iboxes' = boxes
    /\ pcI' = "calibrate"
    /\ UNCHANGED <<engineVars, det_model, cls_model, iframe, polled, othersI>>

\* lines 184-220: an exception while processing the frame (model infer, resize)
\* is not caught inside main_loop: the thread ends, nothing is released
StageFrameError ==
    /\ pcI \in {"detect", "put"}
    /\ pcI' = "dead"
    /\ UNCHANGED <<engineVars, det_model, cls_model, iframe, iboxes, polled, othersI>>

\* lines 195-197: if tracking_event: self.tracker.update(boxes.tolist());
\* post_process_det returns the list [] for no boxes, and [].tolist() raises
StageCalibrate ==
    /\ pcI = "calibrate"
    /\ IF ~tracking_event
         THEN pcI' = "put" /\ UNCHANGED <<tracker, fed>>
         ELSE IF iboxes = <<>>
           THEN pcI' = "dead" /\ UNCHANGED <<tracker, fed>>
           ELSE /\ tracker' = TrackerUpdate(tracker, iboxes)
                /\ fed' = Append(fed, iboxes)
                /\ pcI' = "count"
    /\ UNCHANGED <<busVars, statusVars, gateVars, queueVars, current_video_path,
                   tracking_event, frame_count, final_centers,
                   det_model, cls_model, iframe, iboxes, polled, othersI>>

\* lines 198-199: self.frame_count += 1; if self.frame_count >= self.max_frames
StageCount ==
    /\ pcI = "count"
    /\ frame_count' = frame_count + 1
    /\ pcI' = (IF frame_count + 1 >= TRACK_MAX_FRAMES THEN "finish" ELSE "put")
    /\ UNCHANGED <<busVars, statusVars, gateVars, queueVars, current_video_path,
                   tracker, tracking_event, final_centers, fed,
                   det_model, cls_model, iframe, iboxes, polled, othersI>>

\* lines 200-202: publish the seat map, clear tracking_event, reset frame_count
StageFinish ==
    /\ pcI = "finish"
    /\ final_centers' = Centers(GetFinalCenters(tracker))
    /\ tracking_event' = FALSE
    /\ frame_count' = 0
    /\ pcI' = "put"
    /\ UNCHANGED <<busVars, statusVars, gateVars, queueVars, current_video_path, tracker,
                   fed, det_model, cls_model, iframe, iboxes, polled, othersI>>

\* lines 208-214: a crop is made only of a box of positive width and height
RECURSIVE Crops(_)
Crops(boxes) ==
    IF boxes = <<>> THEN <<>>
    ELSE IF (Head(boxes)[4] - Head(boxes)[2]) > 0 /\ (Head(boxes)[3] - Head(boxes)[1]) > 0
      THEN <<Head(boxes)>> \o Crops(Tail(boxes))
      ELSE Crops(Tail(boxes))

\* lines 205-220: the lists cls_ids the classification can produce: one class
\* per crop, in crop order
RECURSIVE ClsLists(_)
ClsLists(n) ==
    IF n = 0 THEN {<<>>}
    ELSE {<<c>> \o r : c \in Classes, r \in ClsLists(n - 1)}

\* lines 222-226: result_q.put((frame, boxes, cls_ids), timeout=0.5) finds room
StagePut ==
    /\ pcI = "put"
    /\ Len(result_q) < QUEUE_SIZE
    /\ \E cls_ids \in ClsLists(Len(Crops(iboxes))) :
         result_q' = Append(result_q, [frame |-> iframe, boxes |-> iboxes, cls_ids |-> cls_ids])
    /\ iframe' = NoFrame
    /\ iboxes' = <<>>
    /\ pcI' = "running"
    /\ UNCHANGED <<busVars, statusVars, gateVars, raw_q, current_video_path, calibVars,
                   det_model, cls_model, polled, othersI>>

\* a variant of StagePutTimeout that drops the oldest result and enqueues the new one
StagePutDropsOldest ==
    /\ pcI = "put"
    /\ Len(result_q) >= QUEUE_SIZE
    /\ \E cls_ids \in ClsLists(Len(Crops(iboxes))) :
         result_q' = Append(Tail(result_q),
                            [frame |-> iframe, boxes |-> iboxes, cls_ids |-> cls_ids])
    /\ iframe' = NoFrame
    /\ iboxes' = <<>>
    /\ pcI' = "running"
    /\ UNCHANGED <<busVars, statusVars, gateVars, raw_q, current_video_path, calibVars,
                   det_model, cls_model, polled, othersI>>

\* lines 227-228: the put times out on a full queue (queue.Full): continue
StagePutTimeout ==
    /\ pcI = "put"
    /\ Len(result_q) >= QUEUE_SIZE
    /\ iframe' = NoFrame
    /\ iboxes' = <<>>
    /\ pcI' = "running"
    /\ UNCHANGED <<engineVars, det_model, cls_model, polled, othersI>>

\* lines 230-239: release the models, clear is_inferring
StageUnload ==
    /\ pcI = "unloading"
    /\ det_model' = FALSE
    /\ cls_model' = FALSE
    /\ is_inferring' = FALSE
    /\ pcI' = "top"
    /\ UNCHANGED <<busVars, last_error, gateVars, queueVars, current_video_path, calibVars,
                   iframe, iboxes, polled, othersI>>

(***************************************************************************)
(* Python dicts, as sets of <<key, value>> pairs with one pair per key      *)
(***************************************************************************)
Keys(d) == {kv[1] : kv \in d}
Get(d, k, default) == IF k \in Keys(d) THEN (CHOOSE kv \in d : kv[1] = k)[2] ELSE default
Put(d, k, v) == {kv \in d : kv[1] # k} \cup {<<k, v>>}

(***************************************************************************)
(* PostProcessor: InferenceEngine.post_process_loop (engine.py:241-376)    *)
(* and ExamManager.update_anomaly_snapshots (exam.py:279-331)              *)
(***************************************************************************)
\* config keys, with the defaults of engine.py:255-256, 264 and exam.py:318-319
anomaly_classes == {0, 1, 2, 3}
snapshot_classes == {0, 1, 2, 3}
anomaly_match_threshold == 2
snapshot_threshold_frames == 2
snapshot_cooldown_frames == 3

\* matched_seat = None
NoSeat == -1
\* current_frame = None; 'last_frame': None
NoFrameNumber == -1

\* squared distance, times 4, between the center of `box` and a seat center
Dist2x4(box, c) ==
    (box[1] + box[3] - 2 * c[1]) * (box[1] + box[3] - 2 * c[1])
    + (box[2] + box[4] - 2 * c[2]) * (box[2] + box[4] - 2 * c[2])

\* a variant of MatchedSeat that accepts only distances below the threshold
MatchedSeatBelow(box, centers) ==
    IF centers.none \/ centers.items = <<>> THEN NoSeat
    ELSE LET items == centers.items
             closest_idx == CHOOSE i \in 1..Len(items) :
                 /\ \A j \in 1..Len(items) :
                        Dist2x4(box, items[i].center) <= Dist2x4(box, items[j].center)
                 /\ \A j \in 1..(i - 1) :
                        Dist2x4(box, items[j].center) > Dist2x4(box, items[i].center)
         IN  IF Dist2x4(box, items[closest_idx].center)
                  < 4 * anomaly_match_threshold * anomaly_match_threshold
               THEN items[closest_idx].id
               ELSE NoSeat

\* lines 280-288: the nearest seat (np.argmin: the first of the nearest) if its
\* distance is <= threshold, else None
MatchedSeat(box, centers) ==
    IF centers.none \/ centers.items = <<>> THEN NoSeat
    ELSE LET items == centers.items
             closest_idx == CHOOSE i \in 1..Len(items) :
                 /\ \A j \in 1..Len(items) :
                        Dist2x4(box, items[i].center) <= Dist2x4(box, items[j].center)
                 /\ \A j \in 1..(i - 1) :
                        Dist2x4(box, items[j].center) > Dist2x4(box, items[i].center)
         IN  IF Dist2x4(box, items[closest_idx].center)
                  <= 4 * anomaly_match_threshold * anomaly_match_threshold
               THEN items[closest_idx].id
               ELSE NoSeat

\* lines 243-252: result_q.get(timeout=0.5) returns a result
PostPoll ==
    /\ pcP = "poll"
    /\ ~exit_event
    /\ result_q # <<>>
    /\ pitem' = Head(result_q)
    /\ result_q' = Tail(result_q)
    /\ polled' = [polled EXCEPT !.result = Head(result_q).frame.id]
    /\ pcP' = "examcheck"
    /\ UNCHANGED <<busVars, statusVars, gateVars, raw_q, current_video_path, calibVars,
                   examVars, pexam, pcenters, pcurrent_frame, pidx, panomaly_map,
                   snapshots, othersP>>

\* lines 246-252: the get times out; with inference off the latest JPEG is cleared
PostIdle ==
    /\ pcP = "poll"
    /\ ~exit_event
    /\ result_q = <<>>
    /\ latest_jpeg' = (IF ~inferring_event THEN NoJpeg ELSE latest_jpeg)
    /\ UNCHANGED <<frame_id, statusVars, gateVars, queueVars, current_video_path, calibVars,
                   examVars, postVars, polled, snapshots, othersP>>

\* line 243: the loop ends on exit_event
PostExit ==
    /\ pcP = "poll"
    /\ exit_event
    /\ pcP' = "done"
    /\ UNCHANGED <<engineVars, examVars, pitem, pexam, pcenters, pcurrent_frame, pidx,
                   panomaly_map, polled, snapshots, othersP>>

\* a variant of PostReadExam that goes on to the attribution without an exam
PostReadExamAlways ==
    /\ pcP = "examcheck"
    /\ pexam' = exam_running
    /\ pcenters' = NoCenters
    /\ pcurrent_frame' = NoFrameNumber
    /\ panomaly_map' = <<>>
    /\ pidx' = 1
    /\ pcP' = (IF Truthy(final_centers) THEN "readcenters" ELSE "count")
    /\ UNCHANGED <<engineVars, examVars, pitem, polled, snapshots, othersP>>

\* lines 266-268: exam_running and the truth value of final_centers, read unlocked
PostReadExam ==
    /\ pcP = "examcheck"
    /\ pexam' = exam_running
    /\ pcenters' = NoCenters
    /\ pcurrent_frame' = NoFrameNumber
    /\ panomaly_map' = <<>>
    /\ pidx' = 1
    /\ pcP' = (IF ~exam_running THEN "boxes"
               ELSE IF Truthy(final_centers) THEN "readcenters" ELSE "count")
    /\ UNCHANGED <<engineVars, examVars, pitem, polled, snapshots, othersP>>

\* lines 269-270: final_centers.values() and .keys(), read again; if it has
\* become None meanwhile the attribute access raises and the thread ends
PostReadCenters ==
    /\ pcP = "readcenters"
    /\ IF final_centers.none
         THEN pcP' = "dead" /\ UNCHANGED pcenters
         ELSE pcenters' = final_centers /\ pcP' = "count"
    /\ UNCHANGED <<engineVars, examVars, pitem, pexam, pcurrent_frame, pidx, panomaly_map,
                   polled, snapshots, othersP>>

\* lines 271-273: with exam_manager.lock: frame_counter += 1
PostCount ==
    /\ pcP = "count"
    /\ exam_lock = "free"
    /\ frame_counter' = frame_counter + 1
    /\ pcurrent_frame' = frame_counter + 1
    /\ pcP' = "boxes"
    /\ UNCHANGED <<engineVars, exam_lock, cancel_event, exam_running, session, track_timer,
                   timer_thread, anomaly_counts, anomaly_snapshots, snapshot_cooldown,
                   pitem, pexam, pcenters, pidx, panomaly_map, polled, snapshots, othersP>>

\* lines 277-304, one box: attribute it, count it, add a snapshot candidate
PostBox ==
    /\ pcP = "boxes"
    /\ pidx <= Len(pitem.boxes)
    /\ LET box == pitem.boxes[pidx]
           cls_id == IF pidx <= Len(pitem.cls_ids) THEN pitem.cls_ids[pidx] ELSE 0
           matched_seat == MatchedSeat(box, pcenters)
           key == <<matched_seat, cls_id>>
       IN  /\ anomaly_counts' =
                 (IF matched_seat # NoSeat /\ cls_id \in anomaly_classes
                    THEN Put(anomaly_counts, matched_seat,
                             Get(anomaly_counts, matched_seat, 0) + 1)
                    ELSE anomaly_counts)
           /\ panomaly_map' =
                 (IF /\ matched_seat # NoSeat
                     /\ cls_id \in snapshot_classes
                     /\ \A k \in 1..Len(panomaly_map) :
                            <<panomaly_map[k].seat_id, panomaly_map[k].cls_id>> # key
                    THEN Append(panomaly_map,
                                [seat_id |-> matched_seat, cls_id |-> cls_id, box |-> box])
                    ELSE panomaly_map)
    /\ pidx' = pidx + 1
    /\ UNCHANGED <<engineVars, exam_lock, cancel_event, exam_running, session, track_timer,
                   timer_thread, anomaly_snapshots, snapshot_cooldown, frame_counter,
                   pcP, pitem, pexam, pcenters, pcurrent_frame, polled, snapshots, othersP>>

\* line 277: the loop over the boxes ends
PostBoxesDone ==
    /\ pcP = "boxes"
    /\ pidx > Len(pitem.boxes)
    /\ pcP' = "snapshots"
    /\ UNCHANGED <<engineVars, examVars, pitem, pexam, pcenters, pcurrent_frame, pidx,
                   panomaly_map, polled, snapshots, othersP>>

\* a variant of UpdateRun that counts occurrences, consecutive or not
UpdateRunCountsAll(st, anomaly, current_frame, dir) ==
    LET key == <<anomaly.seat_id, anomaly.cls_id>>
        entry == Get(st.runs, key, [count |-> 0, last_frame |-> NoFrameNumber])
        count == entry.count + 1
        last_snapshot_frame == Get(st.cooldown, key, 0)
        fire == /\ count >= snapshot_threshold_frames
                /\ (current_frame - last_snapshot_frame) >= snapshot_cooldown_frames
    IN  [runs |-> Put(st.runs, key, [count |-> IF fire THEN 0 ELSE count,
                                     last_frame |-> current_frame]),
         cooldown |-> IF fire THEN Put(st.cooldown, key, current_frame) ELSE st.cooldown,
         taken |-> IF fire
                     THEN Append(st.taken, [seat_id |-> anomaly.seat_id,
                                            cls_id |-> anomaly.cls_id,
                                            box |-> anomaly.box,
                                            frame |-> current_frame,
                                            dir |-> dir])
                     ELSE st.taken]

\* exam.py:299-331, one anomaly: st = [runs, cooldown, taken] are
\* anomaly_snapshots, snapshot_cooldown and the snapshots taken by take_snapshot
UpdateRun(st, anomaly, current_frame, dir) ==
    LET key == <<anomaly.seat_id, anomaly.cls_id>>
        entry == Get(st.runs, key, [count |-> 0, last_frame |-> NoFrameNumber])
        count == IF entry.last_frame = NoFrameNumber \/ current_frame # entry.last_frame + 1
                   THEN 1 ELSE entry.count + 1
        last_snapshot_frame == Get(st.cooldown, key, 0)
        fire == /\ count >= snapshot_threshold_frames
                /\ (current_frame - last_snapshot_frame) >= snapshot_cooldown_frames
    IN  [runs |-> Put(st.runs, key, [count |-> IF fire THEN 0 ELSE count,
                                     last_frame |-> current_frame]),
         cooldown |-> IF fire THEN Put(st.cooldown, key, current_frame) ELSE st.cooldown,
         taken |-> IF fire
                     THEN Append(st.taken, [seat_id |-> anomaly.seat_id,
                                            cls_id |-> anomaly.cls_id,
                                            box |-> anomaly.box,
                                            frame |-> current_frame,
                                            dir |-> dir])
                     ELSE st.taken]

RECURSIVE UpdateRuns(_, _, _, _)
\* exam.py:299: for anomaly in anomalies
UpdateRuns(st, anomalies, current_frame, dir) ==
    IF anomalies = <<>> THEN st
    ELSE UpdateRuns(UpdateRun(st, Head(anomalies), current_frame, dir),
                    Tail(anomalies), current_frame, dir)

\* engine.py:321-331 and exam.py:279-331: with an exam running and candidates,
\* update_anomaly_snapshots; it returns at once when final_centers is falsy
PostSnapshots ==
    /\ pcP = "snapshots"
    /\ IF exam_running /\ panomaly_map # <<>> /\ Truthy(final_centers)
         THEN LET st == UpdateRuns([runs |-> anomaly_snapshots,
                                    cooldown |-> snapshot_cooldown,
                                    taken |-> snapshots],
                                   panomaly_map, pcurrent_frame, session.dir)
              IN  /\ frame_counter' = pcurrent_frame
                  /\ anomaly_snapshots' = st.runs
                  /\ snapshot_cooldown' = st.cooldown
                  /\ snapshots' = st.taken
         ELSE UNCHANGED <<frame_counter, anomaly_snapshots, snapshot_cooldown, snapshots>>
    /\ pcP' = "publish"
    /\ UNCHANGED <<engineVars, exam_lock, cancel_event, exam_running, session, track_timer,
                   timer_thread, anomaly_counts,
                   pitem, pexam, pcenters, pcurrent_frame, pidx, panomaly_map, polled,
                   othersP>>

\* a variant of PostPublish that replaces latest_jpeg and keeps frame_id
PostPublishKeepsFrameId ==
    /\ pcP = "publish"
    /\ latest_jpeg' = pitem.frame.id
    /\ pitem' = NoItem
    /\ pcP' = "poll"
    /\ UNCHANGED <<frame_id, statusVars, gateVars, queueVars, current_video_path, calibVars,
                   examVars, pexam, pcenters, pcurrent_frame, pidx, panomaly_map, polled,
                   snapshots, othersP>>

\* lines 361-376: cv2.imencode succeeds; under engine.lock replace latest_jpeg,
\* increment frame_id, notify_all
PostPublish ==
    /\ pcP = "publish"
    /\ latest_jpeg' = pitem.frame.id
    /\ frame_id' = frame_id + 1
    /\ pitem' = NoItem
    /\ pcP' = "poll"
    /\ UNCHANGED <<statusVars, gateVars, queueVars, current_video_path, calibVars, examVars,
                   pexam, pcenters, pcurrent_frame, pidx, panomaly_map, polled, snapshots,
                   othersP>>

\* lines 369-372: cv2.imencode returns ret = False; nothing is published
PostEncodeFail ==
    /\ pcP = "publish"
    /\ pitem' = NoItem
    /\ pcP' = "poll"
    /\ UNCHANGED <<engineVars, examVars, pexam, pcenters, pcurrent_frame, pidx,
                   panomaly_map, polled, snapshots, othersP>>

(***************************************************************************)
(* /stream clients: frame_generator (main.py:244-260)                      *)
(***************************************************************************)
\* a GET /stream arrives: last_sent_id = -1
ClientConnect(c) ==
    /\ clients[c].pc = "new"
    /\ clients' = [clients EXCEPT ![c].pc = "wait", ![c].last_sent_id = InitialLastSentId]
    /\ UNCHANGED <<engineVars, othersC>>

\* a variant of ClientWait that does not wait for frame_id to differ
ClientWaitAnyFrame(c) ==
    /\ clients[c].pc = "wait"
    /\ IF exit_event
         THEN clients' = [clients EXCEPT ![c].pc = "done"]
         ELSE clients' = [clients EXCEPT ![c].pc = "yield",
                                         ![c].data = latest_jpeg,
                                         ![c].last_sent_id = frame_id]
    /\ UNCHANGED <<engineVars, othersC>>

\* lines 248-255: under engine.condition, once frame_id differs from last_sent_id
\* (or on exit), take latest_jpeg and frame_id together
ClientWait(c) ==
    /\ clients[c].pc = "wait"
    /\ IF exit_event
         THEN clients' = [clients EXCEPT ![c].pc = "done"]
         ELSE /\ frame_id # clients[c].last_sent_id
              /\ clients' = [clients EXCEPT ![c].pc = "yield",
                                            ![c].data = latest_jpeg,
                                            ![c].last_sent_id = frame_id]
    /\ UNCHANGED <<engineVars, othersC>>

\* lines 257-258: if data: yield the part
ClientYield(c) ==
    /\ clients[c].pc = "yield"
    /\ clients' = [clients EXCEPT
                     ![c].pc = "wait",
                     ![c].yielded = IF clients[c].data # NoJpeg
                                      THEN Append(@, [frame_id |-> clients[c].last_sent_id,
                                                      data |-> clients[c].data])
                                      ELSE @]
    /\ UNCHANGED <<engineVars, othersC>>

(***************************************************************************)
(* HTTP control handlers (main.py:121-141), set_video_source               *)
(* (engine.py:53-60) and the exit paths (main.py:45-48, 74-80)             *)
(***************************************************************************)
othersH == <<examVars, readerVars, stageVars, postVars, clients, starter, stoppers,
             trackTimers, autoStops, exams_started, history>>

\* /cmd/start_inference
CmdStartInference ==
    /\ cmds < MaxCmds
    /\ cmds' = cmds + 1
    /\ UNCHANGED setter
    /\ inferring_event' = TRUE
    /\ UNCHANGED <<busVars, statusVars, video_event, exit_event, queueVars,
                   current_video_path, calibVars, othersH>>

\* /cmd/stop_inference, /cmd/stop
CmdStop ==
    /\ cmds < MaxCmds
    /\ cmds' = cmds + 1
    /\ UNCHANGED setter
    /\ video_event' = FALSE
    /\ inferring_event' = FALSE
    /\ UNCHANGED <<busVars, statusVars, exit_event, queueVars, current_video_path,
                   calibVars, othersH>>

\* /cmd/start_video, /cmd/start
CmdStart ==
    /\ cmds < MaxCmds
    /\ cmds' = cmds + 1
    /\ UNCHANGED setter
    /\ inferring_event' = TRUE
    /\ video_event' = TRUE
    /\ UNCHANGED <<busVars, statusVars, exit_event, queueVars, current_video_path,
                   calibVars, othersH>>

\* /cmd/stop_video
CmdStopVideo ==
    /\ cmds < MaxCmds
    /\ cmds' = cmds + 1
    /\ UNCHANGED setter
    /\ video_event' = FALSE
    /\ UNCHANGED <<busVars, statusVars, inferring_event, exit_event, queueVars,
                   current_video_path, calibVars, othersH>>

\* the signal handler (main.py:45-48): exit_event.set(), both gates cleared
SignalExit ==
    /\ ~exit_event
    /\ UNCHANGED ctlVars
    /\ exit_event' = TRUE
    /\ inferring_event' = FALSE
    /\ video_event' = FALSE
    /\ UNCHANGED <<busVars, statusVars, queueVars, current_video_path, calibVars, othersH>>

\* /cmd/set_video/{path}: set_video_source, lines 54-58: under engine.lock set the
\* path and clear last_error; if the video gate is up, lower it
SetSourceBegin(url) ==
    /\ setter = "idle"
    /\ cmds < MaxCmds
    /\ cmds' = cmds + 1
    /\ current_video_path' = url
    /\ last_error' = NoError
    /\ IF video_event
         THEN video_event' = FALSE /\ setter' = "cycle"
         ELSE UNCHANGED <<video_event, setter>>
    /\ UNCHANGED <<busVars, is_inferring, inferring_event, exit_event, queueVars, calibVars,
                   examVars, readerVars, stageVars, postVars, clients,
                   starter, stoppers, trackTimers, autoStops, exams_started, history>>

\* set_video_source, lines 59-60: after time.sleep(0.1) raise the gate again
SetSourceEnd ==
    /\ setter = "cycle"
    /\ UNCHANGED cmds
    /\ video_event' = TRUE
    /\ setter' = "idle"
    /\ UNCHANGED <<busVars, statusVars, inferring_event, exit_event, queueVars,
                   current_video_path, calibVars,
                   examVars, readerVars, stageVars, postVars, clients,
                   starter, stoppers, trackTimers, autoStops, exams_started, history>>

(***************************************************************************)
(* ExamManager (exam.py)                                                   *)
(***************************************************************************)
\* number of exams started in a run
MaxExams == 2
\* number of concurrent callers of stop_exam
NumStoppers == 1
StopperIds == 1..NumStoppers
ExamIds == 1..MaxExams

\* self.duration = None / self.classroom_id = None / self.track_timer = None
NoDuration == -1
NoClassroom == -1
NoTimer == 0
NoDir == 0
NoSession == [subject |-> "None", duration |-> NoDuration, classroom_id |-> NoClassroom,
              start_time |-> 0, dir |-> NoDir, student_count |-> 0]

\* classrooms.json, as load_classrooms returns it (exam.py:40-47)
classrooms == <<[id |-> 1, url |-> "urlA"], [id |-> 2, url |-> "urlB"]>>
\* the arguments start_exam is called with
Subjects == {"math"}
DurationInputs == {<<"1">>, <<"0">>, <<"x">>, <<>>, <<"1", "x">>}
ClassroomInputs == {1, 3}

Digits == {"0", "1", "2", "3", "4", "5", "6", "7", "8", "9"}
DigitValue(c) ==
    CASE c = "0" -> 0 [] c = "1" -> 1 [] c = "2" -> 2 [] c = "3" -> 3 [] c = "4" -> 4
      [] c = "5" -> 5 [] c = "6" -> 6 [] c = "7" -> 7 [] c = "8" -> 8 [] c = "9" -> 9

RECURSIVE DecimalValue(_)
DecimalValue(ds) ==
    IF ds = <<>> THEN 0 ELSE 10 * DecimalValue(SubSeq(ds, 1, Len(ds) - 1)) + DigitValue(ds[Len(ds)])

\* int(duration) for a string of the characters above: an optional sign and at
\* least one digit, else ValueError
ParseInt(str) ==
    LET signed == str # <<>> /\ str[1] \in {"-", "+"}
        body == IF signed THEN Tail(str) ELSE str
        ok == body # <<>> /\ \A i \in 1..Len(body) : body[i] \in Digits
    IN  [ok |-> ok,
         value |-> IF ~ok THEN 0
                   ELSE IF signed /\ str[1] = "-" THEN -DecimalValue(body)
                   ELSE DecimalValue(body)]

\* get_classroom_url (exam.py:49-65): the url of the first classroom with the id
ClassroomFound(classroom_id) == \E i \in 1..Len(classrooms) : classrooms[i].id = classroom_id
ClassroomUrl(classroom_id) ==
    classrooms[CHOOSE i \in 1..Len(classrooms) :
                  /\ classrooms[i].id = classroom_id
                  /\ \A j \in 1..(i - 1) : classrooms[j].id # classroom_id].url

\* the last ExamManager API call: the operation and "ok" or the exception it
\* raised, "running" while stop_exam is between its two locked blocks
Called(op, result) == [op |-> op, result |-> result]

\* threading.Thread.is_alive() of a Timer: started and not finished
TimerAlive(e) == e # NoTimer /\ trackTimers[e] \in {"waiting", "fired"}

\* cancel_event.set(): every thread waiting in cancel_event.wait returns True
Notified(threads) ==
    [e \in ExamIds |-> IF threads[e] = "waiting" THEN "done" ELSE threads[e]]

\* Timer.cancel(): a timer still waiting ends without calling its function; one
\* whose wait has already timed out calls it all the same
Cancelled(timers, e) ==
    IF e # NoTimer /\ timers[e] = "waiting" THEN [timers EXCEPT ![e] = "done"] ELSE timers

\* a variant of StartExamCommit that does not start the calibration-delay timer
StartExamCommitNoTrackTimer(subject, duration_sec, classroom_id) ==
    LET e == exams_started + 1
    IN  /\ inferring_event' = TRUE
        /\ video_event' = TRUE
        /\ exam_running' = TRUE
        /\ session' = [subject |-> subject, duration |-> duration_sec,
                       classroom_id |-> classroom_id, start_time |-> e, dir |-> e,
                       student_count |-> 0]
        /\ anomaly_counts' = {}
        /\ anomaly_snapshots' = {}
        /\ snapshot_cooldown' = {}
        /\ frame_counter' = 0
        /\ cancel_event' = FALSE
        /\ timer_thread' = e
        /\ autoStops' = [autoStops EXCEPT ![e] = "started"]
        /\ UNCHANGED <<track_timer, trackTimers>>
        /\ exams_started' = e
        /\ exam_lock' = "free"
        /\ starter' = [pc |-> "idle", subject |-> "None", duration |-> NoDuration,
                       classroom_id |-> NoClassroom]
        /\ last_call' = Called("start_exam", "ok")

\* start_exam, lines 93-123, for the exam number e = exams_started + 1
StartExamCommit(subject, duration_sec, classroom_id) ==
    LET e == exams_started + 1
    IN  /\ inferring_event' = TRUE
        /\ video_event' = TRUE
        /\ exam_running' = TRUE
        /\ session' = [subject |-> subject, duration |-> duration_sec,
                       classroom_id |-> classroom_id, start_time |-> e, dir |-> e,
                       student_count |-> 0]
        /\ anomaly_counts' = {}
        /\ anomaly_snapshots' = {}
        /\ snapshot_cooldown' = {}
        /\ frame_counter' = 0
        /\ cancel_event' = FALSE
        /\ timer_thread' = e
        /\ autoStops' = [autoStops EXCEPT ![e] = "started"]
        /\ track_timer' = e
        /\ trackTimers' = [trackTimers EXCEPT ![e] = "waiting"]
        /\ exams_started' = e
        /\ exam_lock' = "free"
        /\ starter' = [pc |-> "idle", subject |-> "None", duration |-> NoDuration,
                       classroom_id |-> NoClassroom]
        /\ last_call' = Called("start_exam", "ok")

\* start_exam, lines 79-87 and get_classroom_url: the checks, in order, and the
\* exception of the first that fails
StartExamError(duration, classroom_id) ==
    IF exam_running THEN "An exam is already running"
    ELSE IF ~ParseInt(duration).ok THEN "Invalid duration format"
    ELSE IF ~ClassroomFound(classroom_id) THEN "Classroom not found"
    ELSE "ok"

StartExamRaises(duration, classroom_id) == StartExamError(duration, classroom_id) # "ok"

\* a variant of StartExam that raises both gates before it makes its checks
StartExamRaisesGates(subject, duration, classroom_id) ==
    /\ starter.pc = "idle"
    /\ exam_lock = "free"
    /\ StartExamRaises(duration, classroom_id)
    /\ last_call' = Called("start_exam", StartExamError(duration, classroom_id))
    /\ inferring_event' = TRUE
    /\ video_event' = TRUE
    /\ UNCHANGED <<busVars, statusVars, exit_event, queueVars, current_video_path, calibVars,
                   examVars, starter, stoppers, trackTimers, autoStops, exams_started,
                   readerVars, stageVars, postVars, clients, ctlVars, polled, snapshots>>

\* start_exam (exam.py:67-123) up to the end of set_video_source's locked part.
\* The checks raise before anything is changed.  With the video gate already up,
\* set_video_source lowers it and sleeps 0.1 s while start_exam holds the lock.
StartExam(subject, duration, classroom_id) ==
    /\ starter.pc = "idle"
    /\ exam_lock = "free"
    /\ StartExamRaises(duration, classroom_id) \/ exams_started < MaxExams
    /\ IF StartExamRaises(duration, classroom_id)
         THEN /\ last_call' = Called("start_exam", StartExamError(duration, classroom_id))
              /\ UNCHANGED <<engineVars, examVars, starter, stoppers, trackTimers, autoStops,
                             exams_started>>
         ELSE /\ current_video_path' = ClassroomUrl(classroom_id)
              /\ last_error' = NoError
              /\ IF video_event
                   THEN /\ video_event' = FALSE
                        /\ exam_lock' = "starter"
                        /\ starter' = [pc |-> "cycle", subject |-> subject,
                                       duration |-> ParseInt(duration).value * 60,
                                       classroom_id |-> classroom_id]
                        /\ UNCHANGED <<inferring_event, cancel_event, exam_running, session,
                                       track_timer, timer_thread, countVars, stoppers,
                                       trackTimers, autoStops, exams_started, last_call>>
                   ELSE /\ StartExamCommit(subject, ParseInt(duration).value * 60,
                                           classroom_id)
                        /\ UNCHANGED stoppers
              /\ UNCHANGED <<busVars, is_inferring, exit_event, queueVars, calibVars>>
    /\ UNCHANGED <<readerVars, stageVars, postVars, clients, ctlVars, polled, snapshots>>

\* start_exam continues after set_video_source's sleep: engine.py:60, exam.py:93-123
StartExamResume ==
    /\ starter.pc = "cycle"
    /\ StartExamCommit(starter.subject, starter.duration, starter.classroom_id)
    /\ UNCHANGED <<busVars, statusVars, exit_event, queueVars, current_video_path, calibVars,
                   stoppers, readerVars, stageVars, postVars, clients, ctlVars, polled,
                   snapshots>>

\* counters and snapshot state as start_exam, stop_exam and reset_anomaly_counts
\* reset them (exam.py:104-107, 174-177, 237-243)
ResetCounts ==
    /\ anomaly_counts' = {}
    /\ anomaly_snapshots' = {}
    /\ snapshot_cooldown' = {}
    /\ frame_counter' = 0

\* stop_exam, lines 138-156: the first locked block; `me` is the _auto_stop_timer
\* thread that runs it, NoTimer for an HTTP handler
StopPrepare(me) ==
    /\ inferring_event' = FALSE
    /\ video_event' = FALSE
    /\ cancel_event' = TRUE
    /\ autoStops' = (IF me = NoTimer THEN Notified(autoStops)
                     ELSE [Notified(autoStops) EXCEPT ![me] = "callback"])
    /\ trackTimers' = (IF TimerAlive(track_timer) THEN Cancelled(trackTimers, track_timer)
                       ELSE trackTimers)
    /\ track_timer' = NoTimer
    /\ final_centers' = NoCenters
    /\ tracker' = FreshTracker
    /\ fed' = <<>>

\* stop_exam, lines 165-188: the second locked block
StopFinalize ==
    /\ exam_running' = FALSE
    /\ session' = NoSession
    /\ ResetCounts
    /\ timer_thread' = (IF timer_thread # NoTimer /\ autoStops[timer_thread] # "done"
                          THEN NoTimer ELSE timer_thread)

\* a variant of StopExamBegin that lowers both gates before it checks exam_running
StopExamBeginLowersGates(s) ==
    /\ stoppers[s] = "idle"
    /\ exam_lock = "free"
    /\ ~exam_running
    /\ last_call' = Called("stop_exam", "No exam is currently running")
    /\ inferring_event' = FALSE
    /\ video_event' = FALSE
    /\ UNCHANGED <<busVars, statusVars, exit_event, queueVars, current_video_path, calibVars,
                   examVars, stoppers, trackTimers, autoStops,
                   readerVars, stageVars, postVars, clients, starter, exams_started, ctlVars,
                   polled, snapshots>>

\* stop_exam called by an HTTP handler: lines 138-156, or the raise of line 140
StopExamBegin(s) ==
    /\ stoppers[s] = "idle"
    /\ exam_lock = "free"
    /\ IF ~exam_running
         THEN /\ last_call' = Called("stop_exam", "No exam is currently running")
              /\ UNCHANGED <<engineVars, examVars, stoppers, trackTimers, autoStops>>
         ELSE /\ StopPrepare(NoTimer)
              /\ stoppers' = [stoppers EXCEPT ![s] = "callback"]
              /\ last_call' = Called("stop_exam", "running")
              /\ UNCHANGED <<busVars, statusVars, exit_event, queueVars, current_video_path,
                             tracking_event, frame_count, exam_lock, exam_running, session,
                             timer_thread, countVars>>
    /\ UNCHANGED <<readerVars, stageVars, postVars, clients, starter, exams_started, ctlVars,
                   polled, snapshots>>

\* stop_exam, lines 158-163: the stop callback, outside the lock
StopExamCallback(s) ==
    /\ stoppers[s] = "callback"
    /\ stoppers' = [stoppers EXCEPT ![s] = "final"]
    /\ UNCHANGED <<engineVars, examVars, readerVars, stageVars, postVars, clients, starter,
                   trackTimers, autoStops, exams_started, ctlVars, history>>

\* stop_exam, lines 165-188, then the return
StopExamEnd(s) ==
    /\ stoppers[s] = "final"
    /\ exam_lock = "free"
    /\ StopFinalize
    /\ stoppers' = [stoppers EXCEPT ![s] = "idle"]
    /\ last_call' = Called("stop_exam", "ok")
    /\ UNCHANGED <<engineVars, exam_lock, cancel_event, track_timer, readerVars, stageVars,
                   postVars, clients, starter, trackTimers, autoStops, exams_started, ctlVars,
                   polled, snapshots>>

\* _start_tracking (exam.py:190-202), the caller holding the lock
StartTracking ==
    IF exam_running
      THEN /\ ResetCounts
           /\ tracker' = FreshTracker
           /\ fed' = <<>>
           /\ final_centers' = NoCenters
           /\ frame_count' = 0
           /\ tracking_event' = TRUE
      ELSE UNCHANGED <<countVars, calibVars>>

\* threading.Timer.run: the wait of TRACK_DELAY_SECONDS times out uncancelled
TrackTimerExpire(e) ==
    /\ trackTimers[e] = "waiting"
    /\ trackTimers' = [trackTimers EXCEPT ![e] = "fired"]
    /\ UNCHANGED <<engineVars, examVars, readerVars, stageVars, postVars, clients, starter,
                   stoppers, autoStops, exams_started, ctlVars, history>>

\* the Timer thread calls _start_tracking: with self.lock
TrackTimerRun(e) ==
    /\ trackTimers[e] = "fired"
    /\ exam_lock = "free"
    /\ StartTracking
    /\ trackTimers' = [trackTimers EXCEPT ![e] = "done"]
    /\ UNCHANGED <<busVars, statusVars, gateVars, queueVars, current_video_path,
                   exam_lock, cancel_event, exam_running, session, track_timer, timer_thread,
                   readerVars, stageVars, postVars, clients, starter, stoppers, autoStops,
                   exams_started, ctlVars, history>>

\* recalibrate (exam.py:204-215)
Recalibrate ==
    /\ exam_lock = "free"
    /\ IF ~exam_running
         THEN /\ last_call' = Called("recalibrate", "No exam is currently running")
              /\ UNCHANGED <<countVars, calibVars, trackTimers>>
         ELSE /\ trackTimers' = (IF TimerAlive(track_timer)
                                   THEN Cancelled(trackTimers, track_timer)
                                   ELSE trackTimers)
              /\ StartTracking
              /\ last_call' = Called("recalibrate", "ok")
    /\ UNCHANGED <<busVars, statusVars, gateVars, queueVars, current_video_path,
                   exam_lock, cancel_event, exam_running, session, track_timer, timer_thread,
                   readerVars, stageVars, postVars, clients, starter, stoppers, autoStops,
                   exams_started, ctlVars, polled, snapshots>>

(***************************************************************************)
(* _auto_stop_timer (exam.py:416-429), the thread started for exam e       *)
(***************************************************************************)
othersA == <<readerVars, stageVars, postVars, clients, starter, stoppers, exams_started,
             ctlVars, polled, snapshots>>

\* lines 418-422: if self.duration: cancel_event.wait(self.duration); a set
\* event returns at once
AutoStopBegin(e) ==
    /\ autoStops[e] = "started"
    /\ autoStops' = [autoStops EXCEPT ![e] =
                       IF session.duration = NoDuration \/ session.duration = 0 THEN "done"
                       ELSE IF cancel_event THEN "done"
                       ELSE "waiting"]
    /\ UNCHANGED <<engineVars, examVars, trackTimers, last_call, othersA>>

\* line 420: the wait times out
AutoStopTimeout(e) ==
    /\ autoStops[e] = "waiting"
    /\ autoStops' = [autoStops EXCEPT ![e] = "expired"]
    /\ UNCHANGED <<engineVars, examVars, trackTimers, last_call, othersA>>

\* lines 424-427: with self.lock: if self.exam_running: self.stop_exam(), whose
\* first block runs under the lock the timer thread already holds
AutoStopExpired(e) ==
    /\ autoStops[e] = "expired"
    /\ exam_lock = "free"
    /\ IF exam_running
         THEN /\ StopPrepare(e)
              /\ exam_lock' = "auto"
         ELSE /\ autoStops' = [autoStops EXCEPT ![e] = "done"]
              /\ UNCHANGED <<inferring_event, video_event, cancel_event, trackTimers,
                             track_timer, final_centers, tracker, fed, exam_lock>>
    /\ UNCHANGED <<busVars, statusVars, exit_event, queueVars, current_video_path,
                   tracking_event, frame_count, exam_running, session, timer_thread,
                   countVars, last_call, othersA>>

\* stop_exam lines 158-163 in the timer thread: the callback, the lock still held
AutoStopCallback(e) ==
    /\ autoStops[e] = "callback"
    /\ autoStops' = [autoStops EXCEPT ![e] = "final"]
    /\ UNCHANGED <<engineVars, examVars, trackTimers, last_call, othersA>>

\* stop_exam lines 165-188 in the timer thread, then the lock is released
AutoStopEnd(e) ==
    /\ autoStops[e] = "final"
    /\ StopFinalize
    /\ exam_lock' = "free"
    /\ autoStops' = [autoStops EXCEPT ![e] = "done"]
    /\ UNCHANGED <<engineVars, cancel_event, track_timer, trackTimers, last_call, othersA>>

(***************************************************************************)
(* HeartbeatManager._get_node_status (heartbeat.py:69-82)                  *)
(***************************************************************************)
\* a variant of get_node_status that looks at is_inferring first
get_node_status_busy_first ==
    IF is_inferring THEN "busy"
    ELSE IF last_error # NoError THEN "error"
    ELSE "idle"

\* "error" if engine.last_error is set, else "busy" if engine.is_inferring,
\* else "idle"
get_node_status ==
    IF last_error # NoError THEN "error"
    ELSE IF is_inferring THEN "busy"
    ELSE "idle"

(***************************************************************************)
(* Initial state: the objects as constructed (engine.py:17-52,              *)
(* exam.py:13-38), the three worker threads at the head of their loops     *)
(***************************************************************************)
Init ==
    /\ latest_jpeg = NoJpeg
    /\ frame_id = 0
    /\ is_inferring = FALSE
    /\ last_error = NoError
    /\ inferring_event = FALSE
    /\ video_event = FALSE
    /\ exit_event = FALSE
    /\ raw_q = <<>>
    /\ result_q = <<>>
    /\ current_video_path = NoPath
    /\ tracker = FreshTracker
    /\ fed = <<>>
    /\ tracking_event = FALSE
    /\ frame_count = 0
    /\ final_centers = NoCenters
    /\ exam_lock = "free"
    /\ cancel_event = FALSE
    /\ exam_running = FALSE
    /\ session = NoSession
    /\ track_timer = NoTimer
    /\ timer_thread = NoTimer
    /\ anomaly_counts = {}
    /\ anomaly_snapshots = {}
    /\ snapshot_cooldown = {}
    /\ frame_counter = 0
    /\ pcR = "top"
    /\ cap = "None"
    /\ v_path = NoPath
    /\ consecutive_failures = 0
    /\ attempt = 0
    /\ rframe = NoFrame
    /\ captured = 0
    /\ pcI = "top"
    /\ det_model = FALSE
    /\ cls_model = FALSE
    /\ iframe = NoFrame
    /\ iboxes = <<>>
    /\ pcP = "poll"
    /\ pitem = NoItem
    /\ pexam = FALSE
    /\ pcenters = NoCenters
    /\ pcurrent_frame = NoFrameNumber
    /\ pidx = 1
    /\ panomaly_map = <<>>
    /\ clients = [c \in ClientIds |-> [pc |-> "new", last_sent_id |-> InitialLastSentId,
                                       data |-> NoJpeg, yielded |-> <<>>]]
    /\ starter = [pc |-> "idle", subject |-> "None", duration |-> NoDuration,
                  classroom_id |-> NoClassroom]
    /\ stoppers = [s \in StopperIds |-> "idle"]
    /\ trackTimers = [e \in ExamIds |-> "none"]
    /\ autoStops = [e \in ExamIds |-> "none"]
    /\ exams_started = 0
    /\ setter = "idle"
    /\ cmds = 0
    /\ polled = [raw |-> 0, result |-> 0, drained |-> FALSE]
    /\ last_call = [op |-> "none", result |-> "ok"]
    /\ snapshots = <<>>

(***************************************************************************)
(* Specifications                                                          *)
(***************************************************************************)
\* Spec: the pipeline under its /cmd handlers, with /stream clients and no
\* exam.  The source delivers frames without detections; reads do not fail.
ReaderNext ==
    \/ ReaderTop \/ ReaderOpen \/ ReaderReadOk \/ ReaderLeave
    \/ ReaderOfferCheck \/ ReaderOfferGet \/ ReaderOfferPut
    \/ ReaderRelease \/ ReaderDrainRaw \/ ReaderDrainResult

StageNext ==
    \/ StageTop \/ StageLoad \/ StagePoll \/ StageLeave \/ StageDetect(<<>>)
    \/ StageFrameError \/ StageCalibrate \/ StagePut \/ StagePutTimeout \/ StageUnload

PostNext ==
    \/ PostPoll \/ PostIdle \/ PostReadExam \/ PostBoxesDone \/ PostSnapshots
    \/ PostPublish \/ PostEncodeFail

ClientNext == \E c \in ClientIds : ClientConnect(c) \/ ClientWait(c) \/ ClientYield(c)

CmdNext ==
    \/ CmdStartInference \/ CmdStop \/ CmdStart \/ CmdStopVideo
    \/ SetSourceBegin("urlA") \/ SetSourceEnd

Next == ReaderNext \/ StageNext \/ PostNext \/ ClientNext \/ CmdNext
Spec == Init /\ [][Next]_vars

\* SpecApi: the ExamManager operations and its timers, with /cmd/start
ExamApiNext ==
    \/ \E subject \in Subjects, duration \in DurationInputs, classroom_id \in ClassroomInputs :
          StartExam(subject, duration, classroom_id)
    \/ StartExamResume
    \/ \E s \in StopperIds : StopExamBegin(s) \/ StopExamCallback(s) \/ StopExamEnd(s)
    \/ Recalibrate

TimerNext ==
    \E e \in ExamIds :
       \/ TrackTimerExpire(e) \/ TrackTimerRun(e)
       \/ AutoStopBegin(e) \/ AutoStopTimeout(e) \/ AutoStopExpired(e)
       \/ AutoStopCallback(e) \/ AutoStopEnd(e)

ApiNext == ExamApiNext \/ TimerNext \/ CmdStart
SpecApi == Init /\ [][ApiNext]_vars

\* SpecExam: one exam over the running VideoReader and InferenceStage; every
\* frame shows one person
CalibNext ==
    \/ StageTop \/ StageLoad \/ StagePoll \/ StageLeave \/ StageDetect(<<BoxA>>)
    \/ StageCalibrate \/ StageCount \/ StageFinish \/ StagePut \/ StagePutTimeout
    \/ StageUnload

OneExamNext ==
    \/ exams_started = 0 /\ \E duration \in {<<"1">>, <<"x">>} : StartExam("math", duration, 1)
    \/ \E s \in StopperIds : StopExamBegin(s) \/ StopExamCallback(s) \/ StopExamEnd(s)
    \/ Recalibrate

ExamNext == OneExamNext \/ TimerNext \/ ReaderNext \/ CalibNext
SpecExam == Init /\ [][ExamNext]_vars

\* SpecSnap: one exam that is not stopped, over the whole pipeline; every frame
\* shows one person at the same place, whose class varies; cv2.imencode succeeds
\* number of frames the video source delivers in a run of SpecSnap
SnapFrames == 6

SnapReaderNext ==
    \/ ReaderTop \/ ReaderOpen \/ ReaderRead(SnapFrames)
    \/ ReaderOfferCheck \/ ReaderOfferGet \/ ReaderOfferPut

SnapStageNext ==
    \/ StageTop \/ StageLoad \/ StagePoll \/ StageDetect(<<BoxA>>)
    \/ StageCalibrate \/ StageCount \/ StageFinish \/ StagePut \/ StagePutTimeout

SnapPostNext ==
    \/ PostPoll \/ PostIdle \/ PostReadExam \/ PostReadCenters \/ PostCount \/ PostBox
    \/ PostBoxesDone \/ PostSnapshots \/ PostPublish

SnapExamNext ==
    \/ exams_started = 0 /\ StartExam("math", <<"1">>, 1)
    \/ TrackTimerExpire(1) \/ TrackTimerRun(1) \/ AutoStopBegin(1)

SnapNext == SnapExamNext \/ SnapReaderNext \/ SnapStageNext \/ SnapPostNext
SpecSnap == Init /\ [][SnapNext]_vars

\* SpecRestart: the second exam of a node whose first exam was stopped after its
\* calibration was armed and before the pipeline delivered a frame.
\* AbortedExam is that state: start_exam, the calibration-delay timer and
\* _start_tracking, the auto-stop thread's wait, then stop_exam, the three
\* worker threads still at the head of their loops.  stop_exam leaves
\* tracking_event set (exam.py:138-188).
AbortedExam ==
    /\ latest_jpeg = NoJpeg
    /\ frame_id = 0
    /\ is_inferring = FALSE
    /\ last_error = NoError
    /\ inferring_event = FALSE
    /\ video_event = FALSE
    /\ exit_event = FALSE
    /\ raw_q = <<>>
    /\ result_q = <<>>
    /\ current_video_path = "urlA"
    /\ tracker = FreshTracker
    /\ fed = <<>>
    /\ tracking_event = TRUE
    /\ frame_count = 0
    /\ final_centers = NoCenters
    /\ exam_lock = "free"
    /\ cancel_event = TRUE
    /\ exam_running = FALSE
    /\ session = NoSession
    /\ track_timer = NoTimer
    /\ timer_thread = 1
    /\ anomaly_counts = {}
    /\ anomaly_snapshots = {}
    /\ snapshot_cooldown = {}
    /\ frame_counter = 0
    /\ pcR = "top"
    /\ cap = "None"
    /\ v_path = NoPath
    /\ consecutive_failures = 0
    /\ attempt = 0
    /\ rframe = NoFrame
    /\ captured = 0
    /\ pcI = "top"
    /\ det_model = FALSE
    /\ cls_model = FALSE
    /\ iframe = NoFrame
    /\ iboxes = <<>>
    /\ pcP = "poll"
    /\ pitem = NoItem
    /\ pexam = FALSE
    /\ pcenters = NoCenters
    /\ pcurrent_frame = NoFrameNumber
    /\ pidx = 1
    /\ panomaly_map = <<>>
    /\ clients = [c \in ClientIds |-> [pc |-> "new", last_sent_id |-> InitialLastSentId,
                                       data |-> NoJpeg, yielded |-> <<>>]]
    /\ starter = [pc |-> "idle", subject |-> "None", duration |-> NoDuration,
                  classroom_id |-> NoClassroom]
    /\ stoppers = [s \in StopperIds |-> "idle"]
    /\ trackTimers = [e \in ExamIds |-> IF e = 1 THEN "done" ELSE "none"]
    /\ autoStops = [e \in ExamIds |-> IF e = 1 THEN "done" ELSE "none"]
    /\ exams_started = 1
    /\ setter = "idle"
    /\ cmds = 0
    /\ polled = [raw |-> 0, result |-> 0, drained |-> FALSE]
    /\ last_call = Called("stop_exam", "ok")
    /\ snapshots = <<>>

\* number of frames the video source delivers in a run of SpecRestart
RestartFrames == 5

RestartReaderNext ==
    \/ ReaderTop \/ ReaderOpen \/ ReaderRead(RestartFrames)
    \/ ReaderOfferCheck \/ ReaderOfferGet \/ ReaderOfferPut

RestartExamNext ==
    \/ exams_started = 1 /\ StartExam("math", <<"1">>, 1)
    \/ TrackTimerExpire(2) \/ TrackTimerRun(2) \/ AutoStopBegin(2)

RestartNext == RestartExamNext \/ RestartReaderNext \/ SnapStageNext \/ SnapPostNext
SpecRestart == AbortedExam /\ [][RestartNext]_vars

\* SpecAttr: one exam with recalibrations over the whole pipeline; a frame shows
\* two persons at their seats, or two persons near the first seat: BoxC with
\* its center at distance anomaly_match_threshold of that seat's, BoxD farther
BoxC == <<3, 1, 5, 3>>
BoxD == <<3, 1, 6, 3>>
AttrDetLists == {<<BoxA, BoxB>>, <<BoxC, BoxD>>}
\* number of frames the video source delivers in a run of SpecAttr
AttrFrames == 2

AttrReaderNext ==
    \/ ReaderTop \/ ReaderOpen \/ ReaderRead(AttrFrames)
    \/ ReaderOfferCheck \/ ReaderOfferPut

AttrStageNext ==
    \/ StageTop \/ StageLoad \/ StagePoll \/ (\E boxes \in AttrDetLists : StageDetect(boxes))
    \/ StageCalibrate \/ StageCount \/ StageFinish \/ StagePut

AttrExamNext == SnapExamNext \/ Recalibrate

AttrNext == AttrExamNext \/ AttrReaderNext \/ AttrStageNext \/ SnapPostNext
SpecAttr == Init /\ [][AttrNext]_vars

\* SpecShutdown: the pipeline with one /stream client; the source is set with
\* /cmd/set_video, inference is started with /cmd/start, and the exit signal
\* can arrive at any moment; reads of the source can fail.  Every
\* thread that can take a step eventually takes one: the loops poll their
\* events with timeouts (engine.py:72, 155, 180, 225, 245; main.py:251).
\* number of frames the video source delivers in a run of SpecShutdown
ShutFrames == 1

ShutReaderNext ==
    \/ ReaderTop \/ ReaderOpen \/ ReaderRead(ShutFrames) \/ ReaderReadFail \/ ReaderReconnect
    \/ ReaderLeave \/ ReaderOfferCheck \/ ReaderOfferPut
    \/ ReaderRelease \/ ReaderDrainRaw \/ ReaderDrainResult

ShutStageNext ==
    \/ StageTop \/ StageLoad \/ StagePoll \/ StageLeave \/ StageDetect(<<>>)
    \/ StageFrameError \/ StageCalibrate \/ StagePut \/ StageUnload

ShutPostNext == PostNext \/ PostExit

ShutClientNext == ClientConnect(1) \/ ClientWait(1) \/ ClientYield(1)

ShutCmdNext ==
    \/ (cmds = 0 /\ SetSourceBegin("urlA"))
    \/ (cmds = 1 /\ CmdStart)
    \/ SignalExit

ShutNext == ShutReaderNext \/ ShutStageNext \/ ShutPostNext \/ ShutClientNext \/ ShutCmdNext

SpecShutdown ==
    /\ Init /\ [][ShutNext]_vars
    /\ WF_vars(ShutReaderNext) /\ WF_vars(ShutStageNext) /\ WF_vars(ShutPostNext)
    /\ WF_vars(ShutClientNext)

\* SpecExit: SpecSnap with the exit signal, which can arrive at any moment, and
\* the steps by which the three threads leave their loops
\* number of frames the video source delivers in a run of SpecExit
ExitFrames == 4

ExitReaderNext ==
    \/ ReaderTop \/ ReaderOpen \/ ReaderRead(ExitFrames) \/ ReaderLeave
    \/ ReaderOfferCheck \/ ReaderOfferGet \/ ReaderOfferPut
    \/ ReaderRelease \/ ReaderDrainRaw \/ ReaderDrainResult

ExitNext ==
    \/ SnapExamNext \/ ExitReaderNext
    \/ SnapStageNext \/ StageLeave \/ StageUnload
    \/ SnapPostNext \/ PostExit
    \/ SignalExit
SpecExit == Init /\ [][ExitNext]_vars

\* SpecTracker: Tracker objects on their own.  A Tracker is created and fed
\* per-frame detection lists one after another; a later Tracker() starts the
\* next run in the same process.
\* the longest detection stream fed to one Tracker: max_age + 2 frames, so that
\* a track can be created, stay unmatched for more than max_age frames and be
\* deleted
StreamLen == 12

\* the per-frame detection lists: one box, or two overlapping boxes of which
\* the second is that box
TrackerInputs == {<<BoxC>>, <<BoxD, BoxC>>}

\* a variant of TrackerNew in which next_id is shared by all Tracker objects
TrackerNewSharedIds ==
    /\ fed # <<>>
    /\ tracker' = [tracks |-> <<>>, next_id |-> tracker.next_id]
    /\ fed' = <<>>
    /\ UNCHANGED <<busVars, statusVars, gateVars, queueVars, current_video_path,
                   tracking_event, frame_count, final_centers,
                   examVars, readerVars, stageVars, postVars, clients, examThreads,
                   history>>

\* Tracker(): tracks = [], next_id = 0
TrackerNew ==
    /\ fed # <<>>
    /\ tracker' = FreshTracker
    /\ fed' = <<>>
    /\ UNCHANGED <<busVars, statusVars, gateVars, queueVars, current_video_path,
                   tracking_event, frame_count, final_centers,
                   examVars, readerVars, stageVars, postVars, clients, examThreads,
                   history>>

\* tracker.update(detections)
TrackerFeed(detections) ==
    /\ Len(fed) < StreamLen
    /\ tracker' = TrackerUpdate(tracker, detections)
    /\ fed' = Append(fed, detections)
    /\ UNCHANGED <<busVars, statusVars, gateVars, queueVars, current_video_path,
                   tracking_event, frame_count, final_centers,
                   examVars, readerVars, stageVars, postVars, clients, examThreads,
                   history>>

TrackerNext == TrackerNew \/ \E detections \in TrackerInputs : TrackerFeed(detections)
SpecTracker == Init /\ [][TrackerNext]_vars

RECURSIVE RunTracker(_)
\* the Tracker a run gets from a fresh one by the updates of a detection stream
RunTracker(stream) ==
    IF stream = <<>> THEN FreshTracker
    ELSE TrackerUpdate(RunTracker(SubSeq(stream, 1, Len(stream) - 1)), stream[Len(stream)])

\* the ids of the tracks of a Tracker
TrackIds(T) == {T.tracks[i].id : i \in 1..Len(T.tracks)}

\* SpecAuto: exams that nobody stops: start_exam with a duration of one or of
\* zero minutes, and the two timers of each exam.  The timer threads are
\* scheduled: each step of theirs that stays possible is eventually taken.
AutoNext ==
    \/ \E duration \in {<<"1">>, <<"0">>} : StartExam("math", duration, 1)
    \/ TimerNext
SpecAuto == Init /\ [][AutoNext]_vars /\ WF_vars(TimerNext)

\* SpecIdle: the pipeline started by /cmd/set_video and /cmd/start on a source
\* whose every frame shows one person, with at most one exam, which can start
\* at any moment; cv2.imencode succeeds
IdleNext ==
    \/ (cmds = 0 /\ SetSourceBegin("urlA")) \/ SetSourceEnd \/ (cmds = 1 /\ CmdStart)
    \/ SnapExamNext \/ StartExamResume
    \/ ReaderTop \/ ReaderOpen \/ ReaderRead(AttrFrames) \/ ReaderLeave
    \/ ReaderOfferCheck \/ ReaderOfferPut
    \/ ReaderRelease \/ ReaderDrainRaw \/ ReaderDrainResult
    \/ StageTop \/ StageLoad \/ StagePoll \/ StageDetect(<<BoxA>>)
    \/ StageCalibrate \/ StageCount \/ StageFinish \/ StagePut
    \/ SnapPostNext
SpecIdle == Init /\ [][IdleNext]_vars

\* SpecSource: the VideoReader under /cmd/set_video, /cmd/start and a second
\* /cmd/set_video with another URI, called while the reader is in its
\* streaming loop; reads of the source can fail.  The reader
\* thread is scheduled, and set_video_source wakes from its sleep (engine.py:59).
\* number of frames the video source delivers in a run of SpecSource
SourceFrames == 3

\* the positions of the VideoReader inside its streaming loop (engine.py:94-139)
Streaming == {"streaming", "reconnect", "offer", "offer_get", "offer_put"}

SourceReaderNext ==
    \/ ReaderTop \/ ReaderOpen \/ ReaderRead(SourceFrames) \/ ReaderReadFail \/ ReaderReconnect
    \/ ReaderLeave \/ ReaderOfferCheck \/ ReaderOfferGet \/ ReaderOfferPut
    \/ ReaderRelease \/ ReaderDrainRaw \/ ReaderDrainResult

SourceNext ==
    \/ (cmds = 0 /\ SetSourceBegin("urlA")) \/ (cmds = 1 /\ CmdStart)
    \/ (cmds = 2 /\ pcR \in Streaming /\ SetSourceBegin("urlB")) \/ SetSourceEnd
    \/ SourceReaderNext
SpecSource ==
    Init /\ [][SourceNext]_vars /\ WF_vars(SourceReaderNext) /\ WF_vars(SetSourceEnd)

\* SpecLock: one exam of one minute over the whole pipeline, two frames of one
\* person, the auto-stop thread running to its end
LockNext ==
    \/ SnapExamNext
    \/ AutoStopTimeout(1) \/ AutoStopExpired(1) \/ AutoStopCallback(1) \/ AutoStopEnd(1)
    \/ AttrReaderNext
    \/ StageTop \/ StageLoad \/ StagePoll \/ StageDetect(<<BoxA>>) \/ StageCalibrate
    \/ StageCount \/ StageFinish \/ StagePut
    \/ SnapPostNext
SpecLock == Init /\ [][LockNext]_vars

(***************************************************************************)
(* post_process_det (models.py:17-61)                                      *)
(***************************************************************************)
\* size of the frames the source delivers: frame.shape[:2] (engine.py:184)
FrameW == 8
FrameH == 8
\* config DET_SIZE (a square), CONF_THRES and IOU_THRES in percent
DET_SIZE == 4
CONF_THRES == 50
IOU_THRES == 50
\* a row of the detection output is <<center_x, center_y, w, h, score>>, the
\* coordinates in units of 1/RawDen of a pixel of the detection input, the
\* score in percent
RawDen == 10

\* assignment of a float to an int32 array element: truncation towards zero
Trunc(n, d) == IF n >= 0 THEN n \div d ELSE -((-n) \div d)

\* lines 34-36: scores > conf_thres
RECURSIVE Confident(_)
Confident(pred) ==
    IF pred = <<>> THEN <<>>
    ELSE IF Head(pred)[5] > CONF_THRES THEN <<Head(pred)>> \o Confident(Tail(pred))
    ELSE Confident(Tail(pred))

\* lines 47-50, cv2.dnn.NMSBoxes: by descending score, a box is kept unless its
\* IoU with a box already kept exceeds iou_thres; `rest` are the indices not yet
\* looked at, `keep` the indices kept so far
RECURSIVE NMSBoxes(_, _, _)
NMSBoxes(pred, rest, keep) ==
    IF rest = {} THEN keep
    ELSE LET Xyxy(r) == <<2 * r[1] - r[3], 2 * r[2] - r[4], 2 * r[1] + r[3], 2 * r[2] + r[4]>>
             best == CHOOSE i \in rest :
                        \A j \in rest : \/ pred[i][5] > pred[j][5]
                                        \/ pred[i][5] = pred[j][5] /\ i <= j
             overlaps == \E k \in 1..Len(keep) :
                            LET f == IouFrac(Xyxy(pred[best]), Xyxy(pred[keep[k]]))
                            IN  f[1] * 100 > IOU_THRES * f[2]
         IN  NMSBoxes(pred, rest \ {best}, IF overlaps THEN keep ELSE Append(keep, best))

\* post_process_det(pred, (w, h), conf_thres, iou_thres, det_size): the boxes
\* kept, scaled to the frame and truncated to int32; nothing is clipped
post_process_det(pred) ==
    LET rows == Confident(pred)
        keep == NMSBoxes(rows, 1..Len(rows), <<>>)
        Scaled(n, size) == Trunc(n * size, 2 * RawDen * DET_SIZE)
    IN  [k \in 1..Len(keep) |->
            LET r == rows[keep[k]]
            IN  <<Scaled(2 * r[1] - r[3], FrameW), Scaled(2 * r[2] - r[4], FrameH),
                  Scaled(2 * r[1] + r[3], FrameW), Scaled(2 * r[2] + r[4], FrameH)>>]

\* SpecDet: one exam over the whole pipeline, the detection output one of
\* RawPreds for every frame: a person inside the image, one whose decoded box
\* reaches outside it, a detection below the confidence threshold, two
\* detections of one person, and a sliver next to a person
RawPreds ==
    { <<<<20, 20, 20, 20, 90>>>>,
      <<<<10, 10, 40, 40, 80>>>>,
      <<<<20, 20, 20, 20, 10>>>>,
      <<<<20, 20, 20, 20, 90>>, <<21, 21, 20, 20, 85>>>>,
      <<<<20, 20, 20, 20, 90>>, <<21, 20, 1, 20, 95>>>> }

DetNext ==
    \/ SnapExamNext
    \/ AttrReaderNext
    \/ StageTop \/ StageLoad \/ StagePoll
    \/ (\E pred \in RawPreds : StageDetect(post_process_det(pred)))
    \/ StageCalibrate \/ StageCount \/ StageFinish \/ StagePut
    \/ SnapPostNext
SpecDet == Init /\ [][DetNext]_vars

(***************************************************************************)
(* ExamManager.get_student_count (exam.py:231-235), called by              *)
(* GET /exam/status (main.py:185) and by the heartbeat (heartbeat.py:103)  *)
(***************************************************************************)
\* the value the call returns: len(final_centers) if final_centers is truthy,
\* else the student_count kept from before
get_student_count ==
    IF Truthy(final_centers) THEN Len(final_centers.items) ELSE session.student_count

\* the call stores the value it returns in self.student_count; it takes no lock
GetStudentCount ==
    /\ session' = [session EXCEPT !.student_count = get_student_count]
    /\ last_call' = Called("get_student_count", "ok")
    /\ UNCHANGED <<engineVars, exam_lock, cancel_event, exam_running, track_timer,
                   timer_thread, countVars, readerVars, stageVars, postVars, clients,
                   examThreads, polled, snapshots>>

\* SpecCount: SpecAttr with the student count read at any time
CountNext == AttrNext \/ GetStudentCount
SpecCount == Init /\ [][CountNext]_vars

(***************************************************************************)
(* Properties                                                              *)
(***************************************************************************)
\* C1: frame_id never decreases.  It changes only in a successful publish of the
\* PostProcessor, by exactly one and together with the replacement of
\* latest_jpeg; every replacement of latest_jpeg by a JPEG increments it; the
\* clearing of latest_jpeg and the steps of every other thread leave it alone.
C1_FrameIdMonotone ==
    [][ /\ frame_id' # frame_id =>
             /\ frame_id' = frame_id + 1
             /\ pcP = "publish"
             /\ latest_jpeg' = pitem.frame.id
        /\ (latest_jpeg' # latest_jpeg /\ latest_jpeg' # NoJpeg) => frame_id' = frame_id + 1
        /\ (latest_jpeg' # latest_jpeg /\ latest_jpeg' = NoJpeg) => frame_id' = frame_id
      ]_vars

\* two frames have been published and the latest JPEG has then been cleared
C1_Witness == frame_id >= 2 /\ latest_jpeg = NoJpeg /\ ~inferring_event

\* C2: for every /stream client the frame ids of the frames it has yielded are
\* strictly increasing, and it has yielded no more frames than were published
C2_ClientFramesIncrease ==
    \A c \in ClientIds :
       /\ \A i, j \in 1..Len(clients[c].yielded) :
             i < j => clients[c].yielded[i].frame_id < clients[c].yielded[j].frame_id
       /\ Len(clients[c].yielded) <= frame_id

\* one client has yielded two frames while the other, connected too, has met a
\* cleared JPEG
C2_Witness ==
    \E c, d \in ClientIds :
       /\ Len(clients[c].yielded) >= 2
       /\ c # d
       /\ clients[d].pc = "yield"
       /\ clients[d].data = NoJpeg
       /\ clients[d].last_sent_id >= 1

\* C3: the raw queue never holds more than QUEUE_SIZE frames, an offer of the
\* VideoReader can always take its next step, and as long as nothing has been
\* polled or drained the queue holds, between offers, exactly the last
\* QUEUE_SIZE frames offered, in the order they were offered
C3_RawQueueDropOldest ==
    /\ Len(raw_q) <= QUEUE_SIZE
    /\ pcR \in {"offer", "offer_get", "offer_put"} =>
          ENABLED (ReaderOfferCheck \/ ReaderOfferGet \/ ReaderOfferPut)
    /\ (polled.raw = 0 /\ ~polled.drained /\ pcR = "streaming") =>
          /\ Len(raw_q) = Min2(captured, QUEUE_SIZE)
          /\ \A i \in 1..Len(raw_q) : raw_q[i].id = captured - Len(raw_q) + i

\* more frames than the queue holds have been offered and nothing has polled
C3_Witness ==
    /\ polled.raw = 0 /\ ~polled.drained /\ pcR = "streaming"
    /\ captured > QUEUE_SIZE
    /\ Len(raw_q) = QUEUE_SIZE

\* C4, as the code has it: the raw queue drops its oldest frame when full; a
\* result produced while the result queue stays full is itself discarded and the
\* queue is left as it was; each consumer receives the surviving items in
\* their original order
C4_OverloadDrops ==
    [][ /\ (pcR = "offer_get" /\ raw_q # <<>> /\ pcR' # pcR) => raw_q' = Tail(raw_q)
        /\ (pcI = "put" /\ pcI' = "running" /\ Len(result_q) >= QUEUE_SIZE) =>
              result_q' = result_q
        /\ polled'.raw # polled.raw => polled'.raw > polled.raw
        /\ polled'.result # polled.result => polled'.result > polled.result
      ]_vars

\* the InferenceStage has discarded the newest result at a full result queue
C4_Witness ==
    /\ pcI = "running"
    /\ Len(result_q) = QUEUE_SIZE
    /\ polled.raw > result_q[Len(result_q)].frame.id

\* C4, as the specification has it: a result produced at a full result queue
\* replaces the oldest queued result
C4_ResultQueueDropsOldest ==
    [][ (pcI = "put" /\ pcI' = "running" /\ Len(result_q) >= QUEUE_SIZE) =>
           /\ Len(result_q') = Len(result_q)
           /\ result_q'[Len(result_q')].frame = iframe
           /\ \A i \in 1..(Len(result_q) - 1) : result_q'[i] = result_q[i + 1]
      ]_vars

\* what start_exam, stop_exam and the timers can change
examState ==
    <<exam_running, session, countVars, cancel_event, track_timer, timer_thread,
      trackTimers, autoStops, exam_lock>>

\* C5: a start_exam call that raises (an exam is running, the duration is not an
\* integer, the classroom is not found) leaves the session fields, the
\* counters and snapshot state, the video source, both gates, the cancel event
\* and the timers as they were
C5_FailedStartChangesNothing ==
    [][ (/\ last_call' # last_call
         /\ last_call'.op = "start_exam"
         /\ last_call'.result # "ok") =>
           /\ last_call'.result \in {"An exam is already running", "Invalid duration format",
                                     "Classroom not found"}
           /\ UNCHANGED <<examState, current_video_path, last_error, gateVars, calibVars,
                          exams_started>>
      ]_vars

\* start_exam has been refused while an exam is running with its timers armed
C5_Witness ==
    /\ last_call = Called("start_exam", "An exam is already running")
    /\ exam_running
    /\ track_timer # NoTimer /\ trackTimers[track_timer] = "waiting"
    /\ timer_thread # NoTimer /\ autoStops[timer_thread] = "waiting"

\* C6: stop_exam called while no exam is running raises and leaves the gates,
\* the seat map, the tracker, the counters, the timers and the cancel event
\* as they were
C6_StopWhileIdleChangesNothing ==
    [][ (/\ last_call' # last_call
         /\ last_call' = Called("stop_exam", "No exam is currently running")) =>
           /\ ~exam_running
           /\ UNCHANGED <<examState, gateVars, calibVars, current_video_path, last_error>>
      ]_vars

\* stop_exam has been refused with both gates up
C6_Witness ==
    /\ last_call = Called("stop_exam", "No exam is currently running")
    /\ ~exam_running
    /\ inferring_event /\ video_event

C8_StopPostcondition ==
    [][ (/\ last_call = Called("stop_exam", "running")
         /\ last_call' = Called("stop_exam", "ok")) =>
           /\ ~exam_running'
           /\ ~inferring_event' /\ ~video_event'
           /\ cancel_event'
           /\ track_timer' = NoTimer
           /\ \A e \in ExamIds : trackTimers'[e] # "waiting"
           /\ final_centers' = NoCenters
           /\ tracker' = FreshTracker
           /\ anomaly_counts' = {} /\ anomaly_snapshots' = {} /\ snapshot_cooldown' = {}
           /\ frame_counter' = 0
      ]_vars

\* C9: whenever no exam is running, the seat map is None or empty and the
\* anomaly counters, the snapshot runs and the cooldowns are empty
C9_IdleStateEmpty ==
    ~exam_running =>
       /\ ~Truthy(final_centers)
       /\ anomaly_counts = {}
       /\ anomaly_snapshots = {}
       /\ snapshot_cooldown = {}

\* C10: whenever inferring_event is clear, neither model is held by main_loop
\* and is_inferring is false
C10_NoModelsWhenGateDown ==
    ~inferring_event => (~det_model /\ ~cls_model /\ ~is_inferring)

\* C11: the seat map is published only when TRACK_MAX_FRAMES frames have been
\* fed to the tracker of the calibration that was armed, never after fewer; the
\* published map is the tracker's final centers, tracking_event is cleared and
\* frame_count is reset to 0
C11_CalibrationBoundary ==
    [][ (pcI = "finish" /\ pcI' # pcI) =>
           /\ Len(fed) = TRACK_MAX_FRAMES
           /\ final_centers' = Centers(GetFinalCenters(tracker))
           /\ ~tracking_event'
           /\ frame_count' = 0
      ]_vars

\* the run of consecutive frames of `key` that the frame numbered `f` completes,
\* from the run recorded in `runs`: the recorded count + 1 when the key's last
\* occurrence was at frame f - 1, else 1
RunLength(runs, key, f) ==
    LET entry == Get(runs, key, [count |-> 0, last_frame |-> NoFrameNumber])
    IN  IF entry.last_frame # NoFrameNumber /\ entry.last_frame + 1 = f
          THEN entry.count + 1 ELSE 1

\* the snapshots taken of `key` in the exam whose directory is `dir`
SnapshotsOf(taken, key, dir) ==
    {i \in 1..Len(taken) :
        taken[i].seat_id = key[1] /\ taken[i].cls_id = key[2] /\ taken[i].dir = dir}

\* the PostProcessor passes the candidates of a frame to update_anomaly_snapshots
SnapshotStep ==
    /\ pcP = "snapshots" /\ pcP' # pcP
    /\ exam_running /\ panomaly_map # <<>> /\ Truthy(final_centers)

\* C12: when the run of a (seat, class) reaches snapshot_threshold_frames
\* consecutive frames and no snapshot of that key has been taken in the
\* current exam, a snapshot of it is taken on that frame
C12_FirstSnapshotAtThreshold ==
    [][ SnapshotStep =>
          \A k \in 1..Len(panomaly_map) :
             LET key == <<panomaly_map[k].seat_id, panomaly_map[k].cls_id>>
             IN  (/\ RunLength(anomaly_snapshots, key, pcurrent_frame) = snapshot_threshold_frames
                  /\ SnapshotsOf(snapshots, key, session.dir) = {})
                 => \E i \in SnapshotsOf(snapshots', key, session.dir) :
                       snapshots'[i].frame = pcurrent_frame
      ]_vars

\* C13: a snapshot of a (seat, class) is taken at a global frame number at least
\* snapshot_cooldown_frames above that of every earlier snapshot of the key in
\* the same exam, and taking it restarts the key's run count from 0
C13_SnapshotCooldown ==
    [][ SnapshotStep =>
          \A i \in (Len(snapshots) + 1)..Len(snapshots') :
             LET key == <<snapshots'[i].seat_id, snapshots'[i].cls_id>>
             IN  /\ \A j \in SnapshotsOf(snapshots, key, session.dir) :
                       /\ snapshots[j].frame < snapshots'[i].frame
                       /\ snapshots'[i].frame - snapshots[j].frame >= snapshot_cooldown_frames
                 /\ Get(anomaly_snapshots', key, [count |-> -1]).count = 0
      ]_vars

\* C14: on an occurrence of a (seat, class) at global frame f its run becomes the
\* recorded count + 1 if its previous occurrence was at frame f - 1 and 1
\* otherwise, and f is recorded as its last occurrence; a snapshot is taken
\* only of a run of at least snapshot_threshold_frames consecutive frames, and
\* then the recorded count restarts from 0
C14_ConsecutiveRuns ==
    [][ SnapshotStep =>
          \A k \in 1..Len(panomaly_map) :
             LET key == <<panomaly_map[k].seat_id, panomaly_map[k].cls_id>>
                 run == RunLength(anomaly_snapshots, key, pcurrent_frame)
                 after == Get(anomaly_snapshots', key, [count |-> -1, last_frame |-> NoFrameNumber])
                 fired == \E i \in (Len(snapshots) + 1)..Len(snapshots') :
                             <<snapshots'[i].seat_id, snapshots'[i].cls_id>> = key
             IN  /\ after.last_frame = pcurrent_frame
                 /\ after.count = (IF fired THEN 0 ELSE run)
                 /\ fired => run >= snapshot_threshold_frames
      ]_vars

\* (seat 0, class 0) occurred at global frames 1 and 3 and not at frame 2: its
\* run is 1 again and no snapshot has been taken
C14_Witness ==
    /\ pcP = "publish"
    /\ exam_running
    /\ frame_counter = 3
    /\ anomaly_counts = {<<0, 2>>}
    /\ anomaly_snapshots = {<<<<0, 0>>, [count |-> 1, last_frame |-> 3]>>}
    /\ snapshots = <<>>

\* the seats of the map `centers` nearest to the center of `box`, as indices
NearestSeats(box, centers) ==
    {i \in 1..Len(centers.items) :
        \A j \in 1..Len(centers.items) :
           Dist2x4(box, centers.items[i].center) <= Dist2x4(box, centers.items[j].center)}

\* the center of `box` lies within anomaly_match_threshold of the seat center c:
\* the squared distance of the doubled coordinates is at most (2 * threshold)^2
WithinThreshold(box, c) ==
    Dist2x4(box, c) <= (2 * anomaly_match_threshold) * (2 * anomaly_match_threshold)

\* C15: for each box of a result processed for a running exam with the seat map
\* the iteration has read: if the box's center is within
\* anomaly_match_threshold (inclusive) of its nearest seat's center and its
\* class is in anomaly_classes, exactly that seat's counter increases by one
\* (the first in seat-map order among equally near seats); otherwise no
\* counter changes
C15_AnomalyAttribution ==
    [][ (pcP = "boxes" /\ pidx <= Len(pitem.boxes) /\ pidx' = pidx + 1) =>
          LET box == pitem.boxes[pidx]
              cls == pitem.cls_ids[pidx]
              near == NearestSeats(box, pcenters)
          IN  IF /\ pexam /\ Truthy(pcenters)
                 /\ cls \in anomaly_classes
                 /\ \E i \in near : WithinThreshold(box, pcenters.items[i].center)
                THEN \E i \in near :
                        /\ \A j \in near : i <= j
                        /\ LET seat == pcenters.items[i].id
                           IN  /\ Get(anomaly_counts', seat, 0) = Get(anomaly_counts, seat, 0) + 1
                               /\ \A kv \in anomaly_counts : kv[1] # seat => kv \in anomaly_counts'
                               /\ Keys(anomaly_counts') = Keys(anomaly_counts) \cup {seat}
                ELSE anomaly_counts' = anomaly_counts
      ]_vars

\* a box at distance exactly anomaly_match_threshold of seat 0 has been counted
\* for seat 0, with a second seat in the map
C15_Witness ==
    /\ pcP = "boxes" /\ pidx = 2
    /\ pitem.boxes = <<BoxC, BoxD>>
    /\ pitem.cls_ids[1] = 0
    /\ pcenters = Centers(<<[id |-> 0, center |-> <<2, 2>>], [id |-> 1, center |-> <<6, 6>>]>>)
    /\ anomaly_counts = {<<0, 1>>}

\* C16: a recalibrate call during a running exam leaves no calibration-delay
\* timer waiting, empties the counters, the snapshot runs and the cooldowns,
\* replaces the tracker by a fresh one, clears the seat map and raises
\* tracking_event; when the calibration that follows publishes its seat map,
\* the count of every seat of the map is zero; a recalibrate call while no
\* exam is running raises and changes nothing
C16_RecalibrateClears ==
    [][ /\ (last_call' # last_call /\ last_call' = Called("recalibrate", "ok")) =>
              /\ exam_running
              /\ \A e \in ExamIds : trackTimers'[e] # "waiting"
              /\ anomaly_counts' = {} /\ anomaly_snapshots' = {} /\ snapshot_cooldown' = {}
              /\ frame_counter' = 0
              /\ tracker' = FreshTracker
              /\ final_centers' = NoCenters
              /\ tracking_event' /\ frame_count' = 0
        /\ (last_call' # last_call
            /\ last_call' = Called("recalibrate", "No exam is currently running")) =>
              /\ ~exam_running
              /\ UNCHANGED <<examState, calibVars, gateVars>>
        /\ (last_call = Called("recalibrate", "ok") /\ pcI = "finish" /\ pcI' # pcI) =>
              \A i \in 1..Len(final_centers'.items) :
                 Get(anomaly_counts', final_centers'.items[i].id, 0) = 0
      ]_vars

\* C17: the heartbeat status is "error" whenever last_error is set, also while
\* is_inferring is true; "busy" when last_error is unset and is_inferring is
\* true; "idle" otherwise
C17_HeartbeatStatus ==
    /\ last_error # NoError => get_node_status = "error"
    /\ (last_error = NoError /\ is_inferring) => get_node_status = "busy"
    /\ (last_error = NoError /\ ~is_inferring) => get_node_status = "idle"

\* the video source failed to open while the models are loaded
C17_Witness == last_error = "source" /\ is_inferring /\ det_model /\ cls_model

\* C18: once exit_event is set, the VideoReader, the InferenceStage and the
\* PostProcessor eventually end, each from wherever it was, and every /stream
\* generator that was started returns
C18_ShutdownLiveness ==
    exit_event ~> (/\ pcR = "done"
                   /\ pcI \in {"done", "dead"}
                   /\ pcP \in {"done", "dead"}
                   /\ \A c \in ClientIds : clients[c].pc \in {"new", "done"})

\* the exit signal came while frames were being published to a client, and all
\* four threads have ended
C18_Witness ==
    /\ exit_event
    /\ pcR = "done" /\ pcI = "done" /\ pcP = "done"
    /\ clients[1].pc = "done" /\ Len(clients[1].yielded) >= 1
    /\ frame_id >= 1

\* C19: every snapshot emission of the PostProcessor starts in a state where
\* the exit signal is not set
C19_NoSnapshotAfterExit ==
    [][ snapshots' # snapshots => ~exit_event ]_vars

StopBegun(e) ==
    \/ exams_started > e
    \/ /\ exams_started = e
       /\ \/ ~exam_running
          \/ \E s \in StopperIds : stoppers[s] \in {"callback", "final"}
          \/ \E t \in ExamIds : autoStops[t] \in {"callback", "final"}

\* C21: once a stop_exam has begun for an exam, the calibration-delay timer of
\* that exam does not raise tracking_event nor reset the tracker, the seat map
\* or the counters, and its auto-stop timer stops no exam but its own
C21_TimersCancelledByStop ==
    [][ \A e \in ExamIds :
          StopBegun(e) =>
            /\ (trackTimers[e] = "fired" /\ trackTimers'[e] = "done")
                  => UNCHANGED <<tracking_event, tracker, final_centers, frame_count,
                                 countVars>>
            /\ (autoStops[e] = "expired" /\ autoStops'[e] = "callback")
                  => exams_started = e
      ]_vars

\* C22: every exam that was started and that nobody stops is eventually stopped
\* by its auto-stop timer: the exam is no longer running and both gates are low
C22_AutoStopLiveness ==
    exam_running ~> (~exam_running /\ ~inferring_event /\ ~video_event)

\* C23: when the VideoReader fails to open the source it records last_error,
\* lowers video_event and is back at the head of its loop, alive, without an
\* open capture; at the head of its loop with video_event up and a source set
\* it goes on to open the source
C23_OpenFailure ==
    [][ /\ (pcR = "opening" /\ pcR' # "streaming" /\ pcR' # pcR) =>
             /\ last_error' = "source"
             /\ ~video_event'
             /\ pcR' = "top"
             /\ cap' # "open"
        /\ (/\ pcR = "top" /\ pcR' # pcR
            /\ video_event /\ ~exit_event /\ current_video_path # NoPath) =>
             /\ pcR' = "opening"
             /\ v_path' = current_video_path
      ]_vars

\* after a failed open (last_error is still the source error) video_event was
\* raised again and the reader has opened the source and streams
C23_Witness ==
    /\ last_error = "source"
    /\ pcR = "streaming" /\ cap = "open"
    /\ video_event

\* C24: when the load of a model fails the InferenceStage records last_error,
\* lowers inferring_event, leaves is_inferring false, holds no model, and is
\* back at the head of its loop, where a raised inferring_event leads to a new
\* load
C24_LoadFailure ==
    [][ /\ (pcI = "loading" /\ pcI' # "running" /\ pcI' # pcI) =>
             /\ last_error' = "model"
             /\ ~inferring_event'
             /\ ~is_inferring'
             /\ pcI' = "top"
             /\ ~det_model' /\ ~cls_model'
        /\ (pcI = "top" /\ pcI' # pcI /\ inferring_event /\ ~exit_event) =>
             pcI' = "loading"
      ]_vars

\* the class id the PostProcessor uses for box i of a result (engine.py:278)
ClsOf(item, i) == IF i <= Len(item.cls_ids) THEN item.cls_ids[i] ELSE 0

\* C25: when the PostProcessor has gone through the boxes of a frame, each entry
\* of the candidate map holds the last box, in box order, among the boxes of
\* the frame attributed to the entry's (seat, class)
C25_CandidateLastWins ==
    [][ (pcP = "boxes" /\ pcP' = "snapshots") =>
          \A k \in 1..Len(panomaly_map) :
             LET same == {i \in 1..Len(pitem.boxes) :
                             /\ MatchedSeat(pitem.boxes[i], pcenters) = panomaly_map[k].seat_id
                             /\ ClsOf(pitem, i) = panomaly_map[k].cls_id}
             IN  \E i \in same :
                    /\ \A j \in same : j <= i
                    /\ panomaly_map[k].box = pitem.boxes[i]
      ]_vars

C27_ReconnectRule ==
    [][ /\ (pcR = "streaming" /\ pcR' = "offer") => consecutive_failures' = 0
        /\ (pcR = "streaming" /\ pcR' = "reconnect") =>
              consecutive_failures' = max_consecutive_failures
        /\ (pcR = "streaming" /\ pcR' = "streaming"
            /\ consecutive_failures' # consecutive_failures) =>
              consecutive_failures' < max_consecutive_failures
        /\ pcR = "reconnect" => attempt < ReconnectAttempts
        /\ (pcR = "reconnect" /\ pcR' = "streaming") =>
              /\ last_error' = NoError
              /\ consecutive_failures' = 0
              /\ cap' = "open"
        /\ (pcR = "reconnect" /\ pcR' = "release") =>
              /\ attempt' = ReconnectAttempts
              /\ ~video_event'
      ]_vars

\* C28: when set_video_source cycles the video gate while the VideoReader is
\* streaming, the reader eventually leaves its capture and takes the current
\* source URI as the one it opens and reads
C28_SetSourceReopens ==
    setter = "cycle" ~> (v_path = current_video_path)

\* C29: the processing of a frame by the InferenceStage, failed or not, ends
\* with the stage in its running loop, its models loaded and is_inferring
\* true, ready to poll the next frame
C29_FrameErrorSkipsFrame ==
    [][ (pcI \in {"detect", "calibrate", "count", "finish", "put"} /\ pcI' # pcI) =>
          \/ pcI' \in {"detect", "calibrate", "count", "finish", "put"}
          \/ /\ pcI' = "running"
             /\ det_model' /\ cls_model' /\ is_inferring'
      ]_vars

\* C30: a thread that is at its stop callback does not hold the exam lock,
\* be it an HTTP handler or an auto-stop timer thread, and start_exam has
\* released the lock when it reaches its start callback
C30_CallbacksOutsideLock ==
    /\ [](/\ \A s \in StopperIds :
               stoppers[s] = "callback" => exam_lock \in {"free", "starter", "auto"}
          /\ \A e \in ExamIds : autoStops[e] = "callback" => exam_lock # "auto")
    /\ [][exams_started' # exams_started => exam_lock' = "free"]_vars

\* C31: a step of the PostProcessor that changes the anomaly counters, the
\* snapshot runs, the cooldown map or the exam frame counter is taken with the
\* exam lock, so never while another thread holds it
C31_UpdatesUnderLock ==
    [][ ((pcP' # pcP \/ pidx' # pidx) /\ countVars' # countVars) => exam_lock = "free" ]_vars

\* C32: in an update of the Tracker a track created by it or matched in it has
\* the frames-since-update counter 0 afterwards, an unmatched track has its
\* counter one higher, and the tracks removed are the ones whose counter
\* exceeds max_age
C32_TrackAgeing ==
    [][ Len(fed') = Len(fed) + 1 =>
          LET old == tracker.tracks
              new == tracker'.tracks
              OldOf(id) == old[CHOOSE k \in 1..Len(old) : old[k].id = id]
          IN  /\ \A i \in 1..Len(new) :
                    IF new[i].id >= tracker.next_id
                      THEN new[i].last_update = 0
                      ELSE IF Len(new[i].boxes) > Len(OldOf(new[i].id).boxes)
                        THEN new[i].last_update = 0
                        ELSE new[i].last_update = OldOf(new[i].id).last_update + 1
              /\ \A i \in 1..Len(new) : new[i].last_update <= max_age
              /\ \A k \in 1..Len(old) :
                    (\A i \in 1..Len(new) : new[i].id # old[k].id)
                       => old[k].last_update + 1 > max_age
      ]_vars

\* C33: every box of every result in the result queue lies within the frame it
\* is paired with and has a positive extent: 0 <= x1 < x2 <= W, 0 <= y1 < y2 <= H
C33_BoxesWithinFrame ==
    \A q \in 1..Len(result_q) :
       \A i \in 1..Len(result_q[q].boxes) :
          LET b == result_q[q].boxes[i]
          IN  /\ 0 <= b[1] /\ b[1] < b[3] /\ b[3] <= FrameW
              /\ 0 <= b[2] /\ b[2] < b[4] /\ b[4] <= FrameH

\* C34: the student count a call of get_student_count returns is the number of
\* seats of the current seat map, 0 while there is none
C34_StudentCountIsSeatCount ==
    get_student_count = (IF final_centers.none THEN 0 ELSE Len(final_centers.items))

\* C35: in a calibration window the InferenceStage handles a frame without
\* detections like any other: it updates the tracker with the empty list and
\* goes on to count the frame, and it never ends there
C35_EmptyDetectionInWindow ==
    [][ (pcI = "calibrate" /\ tracking_event /\ iboxes = <<>> /\ pcI' # pcI) =>
          /\ tracker' = TrackerUpdate(tracker, <<>>)
          /\ fed' = Append(fed, <<>>)
          /\ pcI' = "count"
      ]_vars

\* C36: the class the PostProcessor uses for the box it is handling, if the box
\* has a positive extent and so was classified, is the class the
\* InferenceStage computed from that box's crop: the entry of cls_ids at the
\* box's position among the boxes that were cropped
C36_BoxClassPairing ==
    (pcP = "boxes" /\ pidx <= Len(pitem.boxes) /\ Crops(<<pitem.boxes[pidx]>>) # <<>>) =>
        ClsOf(pitem, pidx) = pitem.cls_ids[Len(Crops(SubSeq(pitem.boxes, 1, pidx)))]

\* C37: at most one thread at a time is between the two locked blocks of
\* stop_exam, so no exam is stopped twice, and the exam is running whenever
\* the calibration-delay timer armed by start_exam is still waiting
C37_StopOncePerExam ==
    /\ Cardinality({s \in StopperIds : stoppers[s] \in {"callback", "final"}})
         + Cardinality({e \in ExamIds : autoStops[e] \in {"callback", "final"}}) <= 1
    /\ \A e \in ExamIds : trackTimers[e] = "waiting" => exam_running

\* C38: a model load that succeeds while a video-source error is recorded
\* leaves the error in place, and the node status is "error" after it
C38_LoadKeepsSourceError ==
    [][ (last_error = "source" /\ ~is_inferring /\ is_inferring') =>
          (last_error' = "source" /\ get_node_status' = "error")
      ]_vars

\* C39: tracking_event is set only while an exam is running; once stop_exam has
\* completed, tracking_event is clear and the calibration frame count is 0
C39_TrackingOnlyInExam ==
    ~exam_running => (~tracking_event /\ frame_count = 0)

====
